---- MODULE Spec2Model ----
(***************************************************************************)
(* A model of the dental appointment agent: the per-session conversation   *)
(* state of DentalVoiceAgent (src/app.py), its extraction paths (keyword   *)
(* answers, NLU oracle + validate_and_fix, fallback_parse), the resolver   *)
(* get_missing_fields, and the dispatcher (book, reschedule_appointment,   *)
(* cancel_appointment, list_my_appointments) acting on the Calendar        *)
(* (GoogleCalendarManager) and the Ledger (GoogleSheetsManager).           *)
(*                                                                         *)
(* Strings of the program are TLA+ strings.  TLC cannot look inside a      *)
(* string, so what a regular expression or strptime reads off a text is    *)
(* given by a table over the texts the model uses (the *Parts and Utt      *)
(* definitions); everything computed from those parts is computed here.    *)
(***************************************************************************)
EXTENDS Integers, Sequences, FiniteSets, TLC

VARIABLES
    state,           \* DentalVoiceAgent.state: the slots and customer_confirmed
    awaiting_field,  \* DentalVoiceAgent.awaiting_field
    calendar,        \* the events of the Google calendar
    master,          \* rows of the Customer_Master sheet (below the header)
    appointments,    \* rows of the appointment log sheet (below the header)
    turn,            \* what the last call of generate_response did (history)
    scene,           \* the scene the run is played in (see the specification)
    turns,           \* position in the script (scripted runs), messages sent (server runs)
    sessions,        \* server.py: the dict of WebVoiceAgent objects (server runs only)
    requests         \* the requests the server is handling, one per worker thread

vars == <<state, awaiting_field, calendar, master, appointments, turn, scene, turns,
          sessions, requests>>

\* Python's None; the empty string is "".
None == "None"

(***************************************************************************)
(* Dates.  The clock is fixed for a run: datetime.now() is 2026-03-06, a   *)
(* Friday.  A date text is read as year, month, day (what strptime with    *)
(* "%Y-%m-%d" reads); a text that is not of that shape has year 0.         *)
(***************************************************************************)
TodayY == 2026
TodayM == 3
TodayD == 6

DateParts(s) ==
    CASE s = "2026-03-05" -> <<2026, 3, 5>>
      [] s = "2026-03-06" -> <<2026, 3, 6>>
      [] s = "2026-03-07" -> <<2026, 3, 7>>
      [] s = "2026-03-08" -> <<2026, 3, 8>>
      [] s = "2026-03-09" -> <<2026, 3, 9>>
      [] s = "2026-03-10" -> <<2026, 3, 10>>
      [] s = "2026-03-13" -> <<2026, 3, 13>>
      [] s = "2026-02-30" -> <<2026, 2, 30>>
      [] s = "2026-03-01" -> <<2026, 3, 1>>
      [] s = "2026-04-05" -> <<2026, 4, 5>>
      [] OTHER -> <<0, 0, 0>>

IsLeap(y) == (y % 4 = 0 /\ y % 100 # 0) \/ y % 400 = 0

DaysInMonth(y, m) ==
    IF m = 2 THEN (IF IsLeap(y) THEN 29 ELSE 28)
    ELSE IF m \in {4, 6, 9, 11} THEN 30 ELSE 31

\* datetime.strptime(s, "%Y-%m-%d") does not raise
ValidDate(s) ==
    LET p == DateParts(s) IN
    /\ p[1] >= 1
    /\ p[2] \in 1..12
    /\ p[3] >= 1 /\ p[3] <= DaysInMonth(p[1], p[2])

RECURSIVE DaysBeforeMonth(_, _)
DaysBeforeMonth(y, m) ==
    IF m <= 1 THEN 0 ELSE DaysBeforeMonth(y, m - 1) + DaysInMonth(y, m - 1)

\* date.toordinal(): days since 0001-01-01 (day 1)
Ordinal(y, m, d) ==
    LET y1 == y - 1 IN
    365 * y1 + (y1 \div 4) - (y1 \div 100) + (y1 \div 400) + DaysBeforeMonth(y, m) + d

\* datetime.weekday(): Monday is 0, Sunday is 6
Weekday(y, m, d) == (Ordinal(y, m, d) + 6) % 7

\* (the date of s) - (today's date), in days; s is a valid date
DaysFromToday(s) ==
    LET p == DateParts(s) IN Ordinal(p[1], p[2], p[3]) - Ordinal(TodayY, TodayM, TodayD)

(***************************************************************************)
(* Times.  A time text in the shape "H:MM xM" is read as hour, minute,     *)
(* meridiem (what strptime with "%I:%M %p" reads); other texts have        *)
(* meridiem "".                                                            *)
(***************************************************************************)
TimeParts(s) ==
    CASE s = "10:00 AM" -> [h |-> 10, m |-> 0, mer |-> "AM"]
      [] s = "2:00 PM"  -> [h |-> 2,  m |-> 0, mer |-> "PM"]
      [] s = "6:00 PM"  -> [h |-> 6,  m |-> 0, mer |-> "PM"]
      [] s = "13:00 PM" -> [h |-> 13, m |-> 0, mer |-> "PM"]
      [] s = "8:59 AM"  -> [h |-> 8,  m |-> 59, mer |-> "AM"]
      [] s = "9:00 AM"  -> [h |-> 9,  m |-> 0, mer |-> "AM"]
      [] s = "12:00 PM" -> [h |-> 12, m |-> 0, mer |-> "PM"]
      [] s = "4:59 PM"  -> [h |-> 4,  m |-> 59, mer |-> "PM"]
      [] s = "5:00 PM"  -> [h |-> 5,  m |-> 0, mer |-> "PM"]
      [] s = "12:30 AM" -> [h |-> 12, m |-> 30, mer |-> "AM"]
      [] s = "12:15 AM" -> [h |-> 12, m |-> 15, mer |-> "AM"]
      [] s = "9:05 AM"  -> [h |-> 9,  m |-> 5, mer |-> "AM"]
      [] s = "11:00 AM" -> [h |-> 11, m |-> 0, mer |-> "AM"]
      [] s = "12:30 PM" -> [h |-> 12, m |-> 30, mer |-> "PM"]
      [] s = "1:00 PM"  -> [h |-> 1,  m |-> 0, mer |-> "PM"]
      [] s = "3:00 PM"  -> [h |-> 3,  m |-> 0, mer |-> "PM"]
      [] s = "11:59 PM" -> [h |-> 11, m |-> 59, mer |-> "PM"]
      [] s = "0:00 AM"  -> [h |-> 0,  m |-> 0, mer |-> "AM"]
      [] OTHER -> [h |-> 0, m |-> 0, mer |-> ""]

\* datetime.strptime(s, "%I:%M %p") does not raise
ParsableTime(s) ==
    LET p == TimeParts(s) IN
    p.mer \in {"AM", "PM"} /\ p.h \in 1..12 /\ p.m \in 0..59

\* the hour (0..23) of the parsed instant
Hour24(s) ==
    LET p == TimeParts(s) IN (p.h % 12) + (IF p.mer = "PM" THEN 12 ELSE 0)

\* minutes since today's midnight of the instant date + time
StartMinute(d, t) == DaysFromToday(d) * 1440 + Hour24(t) * 60 + TimeParts(t).m

(***************************************************************************)
(* Utterances.  Utt(text) is what the regular expressions and substring    *)
(* tests of parse_with_llm and fallback_parse find in a text:              *)
(*   words  the keywords of the keyword lists that occur in text.lower()   *)
(*   cust   re.search(r'CUST\d{3}', text.upper())                          *)
(*   intent the first of "book", "reschedule", "cancel" in text.lower()    *)
(*   name   name_match.group(1).strip(), phone: the digits of phone_match  *)
(*   time   the text matched by \d{1,2}:\d{2}|\d{1,2}\s*[ap]m, else ""     *)
(***************************************************************************)
NoMatch == [words |-> {}, cust |-> None, intent |-> None, name |-> None,
            phone |-> None, time |-> ""]

Utt(text) ==
    CASE text = "I'm a new patient" ->
            [NoMatch EXCEPT !.words = {"new"}, !.name = "a new patient"]
      [] text = "book an appointment" -> [NoMatch EXCEPT !.intent = "book"]
      [] text = "My name is Asha, phone 9876543210" ->
            [NoMatch EXCEPT !.name = "Asha", !.phone = "9876543210"]
      [] text = "tomorrow at 10 AM" ->
            [NoMatch EXCEPT !.time = "10 AM"]
      [] text = "tomorrow at 2 pm" ->
            [NoMatch EXCEPT !.time = "2 pm"]
      [] text = "tomorrow at 6 pm" ->
            [NoMatch EXCEPT !.time = "6 pm"]
      [] text = "tomorrow at 13 pm" ->
            [NoMatch EXCEPT !.time = "13 pm"]
      [] text = "yes" -> [NoMatch EXCEPT !.words = {"yes"}]
      [] text = "no" -> [NoMatch EXCEPT !.words = {"no"}]
      [] text = "nope" -> [NoMatch EXCEPT !.words = {"no", "nope"}]
      [] text = "incorrect" -> [NoMatch EXCEPT !.words = {"correct", "incorrect"}]
      [] text = "not correct" -> [NoMatch EXCEPT !.words = {"no", "correct"}]
      [] text = "old" -> [NoMatch EXCEPT !.words = {"old"}]
      [] text = "CUST001" -> [NoMatch EXCEPT !.cust = "CUST001"]
      [] text = "CUST002" -> [NoMatch EXCEPT !.cust = "CUST002"]
      [] text = "reschedule" -> [NoMatch EXCEPT !.intent = "reschedule"]
      [] text = "cancel" -> [NoMatch EXCEPT !.intent = "cancel"]
      [] OTHER -> NoMatch   \* "general checkup", "show my appointments", "hello", the date texts

\* any(word in text_lower for word in list)
AnyWord(text, list) == Utt(text).words \cap list # {}

\* the keywords that are whole words of the text (what the caller said, as
\* opposed to what a substring test finds)
Tokens(text) ==
    CASE text = "I'm a new patient" -> {"new"}
      [] text = "yes" -> {"yes"}
      [] text = "no" -> {"no"}
      [] text = "nope" -> {"nope"}
      [] text = "incorrect" -> {"incorrect"}
      [] text = "not correct" -> {"correct"}
      [] text = "old" -> {"old"}
      [] OTHER -> {}

AFFIRMATIVE == {"yes", "yeah", "yep", "correct", "right", "confirm"}
NEGATIVE == {"no", "nope", "wrong", "incorrect"}
NEW_WORDS == {"new", "first time", "never been"}
OLD_WORDS == {"old", "returning", "been before", "already", "yes"}
ID_NEW_WORDS == {"new", "first time", "never"}
ID_OLD_WORDS == {"old", "returning", "already"}
ID_NO_WORDS == {"no", "nope", "dont have"}

(***************************************************************************)
(* normalize_time.  RawTime(s) is the shape of the stripped text: which of *)
(* the four regular expressions matches it first and the groups it reads.  *)
(***************************************************************************)
RawTime(s) ==
    CASE s = "10:00 AM" -> [form |-> "H:MM xM", h |-> 10, m |-> 0, mer |-> "AM"]
      [] s = "2:00 PM"  -> [form |-> "H:MM xM", h |-> 2,  m |-> 0, mer |-> "PM"]
      [] s = "6:00 PM"  -> [form |-> "H:MM xM", h |-> 6,  m |-> 0, mer |-> "PM"]
      [] s = "13:00 PM" -> [form |-> "H:MM xM", h |-> 13, m |-> 0, mer |-> "PM"]
      [] s = "10 AM"    -> [form |-> "H xM",    h |-> 10, m |-> 0, mer |-> "AM"]
      [] s = "2 pm"     -> [form |-> "H xM",    h |-> 2,  m |-> 0, mer |-> "PM"]
      [] s = "6 pm"     -> [form |-> "H xM",    h |-> 6,  m |-> 0, mer |-> "PM"]
      [] s = "13 pm"    -> [form |-> "H xM",    h |-> 13, m |-> 0, mer |-> "PM"]
      [] s = "14:00"    -> [form |-> "HH:MM",   h |-> 14, m |-> 0, mer |-> ""]
      [] s = "18:00"    -> [form |-> "HH:MM",   h |-> 18, m |-> 0, mer |-> ""]
      [] s = "00:15"    -> [form |-> "HH:MM",   h |-> 0,  m |-> 15, mer |-> ""]
      [] s = "09:05"    -> [form |-> "HH:MM",   h |-> 9,  m |-> 5, mer |-> ""]
      [] s = "12:30"    -> [form |-> "HH:MM",   h |-> 12, m |-> 30, mer |-> ""]
      [] s = "13:00"    -> [form |-> "HH:MM",   h |-> 13, m |-> 0, mer |-> ""]
      [] s = "23:59"    -> [form |-> "HH:MM",   h |-> 23, m |-> 59, mer |-> ""]
      [] s = "9am"      -> [form |-> "H xM",    h |-> 9,  m |-> 0, mer |-> "AM"]
      [] s = "0"        -> [form |-> "H",       h |-> 0,  m |-> 0, mer |-> ""]
      [] s = "9"        -> [form |-> "H",       h |-> 9,  m |-> 0, mer |-> ""]
      [] s = "11"       -> [form |-> "H",       h |-> 11, m |-> 0, mer |-> ""]
      [] s = "12"       -> [form |-> "H",       h |-> 12, m |-> 0, mer |-> ""]
      [] s = "15"       -> [form |-> "H",       h |-> 15, m |-> 0, mer |-> ""]
      [] OTHER -> [form |-> "", h |-> 0, m |-> 0, mer |-> ""]   \* "half past nine", "10.30 am"

\* f"{hour}:{minute} {period}": the text with these parts
TimeText(h, m, mer) ==
    CASE h = 10 /\ m = 0 /\ mer = "AM" -> "10:00 AM"
      [] h = 2  /\ m = 0 /\ mer = "PM" -> "2:00 PM"
      [] h = 6  /\ m = 0 /\ mer = "PM" -> "6:00 PM"
      [] h = 13 /\ m = 0 /\ mer = "PM" -> "13:00 PM"
      [] h = 12 /\ m = 15 /\ mer = "AM" -> "12:15 AM"
      [] h = 9  /\ m = 5 /\ mer = "AM" -> "9:05 AM"
      [] h = 9  /\ m = 0 /\ mer = "AM" -> "9:00 AM"
      [] h = 11 /\ m = 0 /\ mer = "AM" -> "11:00 AM"
      [] h = 12 /\ m = 0 /\ mer = "PM" -> "12:00 PM"
      [] h = 12 /\ m = 30 /\ mer = "PM" -> "12:30 PM"
      [] h = 1  /\ m = 0 /\ mer = "PM" -> "1:00 PM"
      [] h = 3  /\ m = 0 /\ mer = "PM" -> "3:00 PM"
      [] h = 11 /\ m = 59 /\ mer = "PM" -> "11:59 PM"
      [] h = 0  /\ m = 0 /\ mer = "AM" -> "0:00 AM"
      [] OTHER -> "?:?? ?M"

\* a faulty variant of normalize_time: a 24-hour hour keeps its value
normalize_time_no_wraparound(time_str) ==
    LET r == RawTime(time_str) IN
    IF time_str \in {None, ""} THEN None
    ELSE IF r.form = "H:MM xM" THEN TimeText(r.h, r.m, r.mer)
    ELSE IF r.form = "H xM" THEN TimeText(r.h, 0, r.mer)
    ELSE IF r.form = "HH:MM" THEN TimeText(r.h, r.m, IF r.h < 12 THEN "AM" ELSE "PM")
    ELSE IF r.form = "H" THEN
        TimeText(IF r.h > 12 THEN r.h - 12 ELSE r.h, 0,
                 IF r.h < 12 THEN "AM" ELSE "PM")
    ELSE None

normalize_time(time_str) ==
    LET r == RawTime(time_str) IN
    IF time_str \in {None, ""} THEN None
    ELSE IF r.form = "H:MM xM" THEN TimeText(r.h, r.m, r.mer)
    ELSE IF r.form = "H xM" THEN TimeText(r.h, 0, r.mer)
    ELSE IF r.form = "HH:MM" THEN
        TimeText(IF r.h = 0 THEN 12 ELSE IF r.h > 12 THEN r.h - 12 ELSE r.h,
                 r.m, IF r.h < 12 THEN "AM" ELSE "PM")
    ELSE IF r.form = "H" THEN
        TimeText(IF r.h > 12 THEN r.h - 12 ELSE r.h, 0,
                 IF r.h < 12 THEN "AM" ELSE "PM")
    ELSE None

(***************************************************************************)
(* extract_date.  DateMatch(text) is what each regular expression and      *)
(* substring test of extract_date finds in a text, on its own:             *)
(*   iso    the groups <<y, m, d>> of (\d{4})-(\d{1,2})-(\d{1,2})          *)
(*   dmy    the groups <<d, m, y>> of (\d{1,2})[/-](\d{1,2})[/-](\d{4})    *)
(*   month  <<m, d, y>> of the first month name and pattern that match,    *)
(*          d = 0 for "Month YYYY", y = 0 for "Month D"                    *)
(*   rel    which of "tomorrow", "today", "next week" occur                *)
(*   day    the number read by \b(\d{1,2})(?:st|nd|rd|th)?\b, 0 if none   *)
(* <<>> where the expression finds nothing.                                *)
(***************************************************************************)
Raises == "raises"

NoDate == [iso |-> <<>>, dmy |-> <<>>, month |-> <<>>, rel |-> {}, day |-> 0]

DateMatch(text) ==
    CASE text = "tomorrow at 10 AM" -> [NoDate EXCEPT !.rel = {"tomorrow"}, !.day = 10]
      [] text = "tomorrow at 2 pm" -> [NoDate EXCEPT !.rel = {"tomorrow"}, !.day = 2]
      [] text = "tomorrow at 6 pm" -> [NoDate EXCEPT !.rel = {"tomorrow"}, !.day = 6]
      [] text = "tomorrow at 13 pm" -> [NoDate EXCEPT !.rel = {"tomorrow"}, !.day = 13]
      [] text = "next week" -> [NoDate EXCEPT !.rel = {"next week"}]
      [] text = "2026-03-05" -> [NoDate EXCEPT !.iso = <<2026, 3, 5>>, !.day = 3]
      [] text = "2026-02-30" -> [NoDate EXCEPT !.iso = <<2026, 2, 30>>, !.day = 2]
      [] text = "march 7" -> [NoDate EXCEPT !.month = <<3, 7, 0>>, !.day = 7]
      [] text = "5/3/2026" -> [NoDate EXCEPT !.dmy = <<5, 3, 2026>>, !.day = 5]
      [] text = "tomorrow" -> [NoDate EXCEPT !.rel = {"tomorrow"}]
      [] text = "today" -> [NoDate EXCEPT !.rel = {"today"}]
      [] text = "today or tomorrow" -> [NoDate EXCEPT !.rel = {"today", "tomorrow"}]
      [] text = "2026-03-09 not 5/3/2026" ->
            [NoDate EXCEPT !.iso = <<2026, 3, 9>>, !.dmy = <<5, 3, 2026>>, !.day = 3]
      [] text = "5/3/2026 or tomorrow" ->
            [NoDate EXCEPT !.dmy = <<5, 3, 2026>>, !.rel = {"tomorrow"}, !.day = 5]
      [] text = "march 9 2026 or tomorrow" ->
            [NoDate EXCEPT !.month = <<3, 9, 2026>>, !.rel = {"tomorrow"}, !.day = 9]
      [] text = "march 2026" -> [NoDate EXCEPT !.month = <<3, 0, 2026>>]
      [] text = "tomorrow the 9th" -> [NoDate EXCEPT !.rel = {"tomorrow"}, !.day = 9]
      [] text = "the 9th" -> [NoDate EXCEPT !.day = 9]
      [] text = "the 5th" -> [NoDate EXCEPT !.day = 5]
      [] OTHER -> NoDate

\* f"{y}-{m.zfill(2)}-{d.zfill(2)}", strftime("%Y-%m-%d"): the text with these parts
DateText(p) ==
    LET texts == {"2026-03-01", "2026-03-05", "2026-03-06", "2026-03-07", "2026-03-09",
                  "2026-03-13", "2026-02-30", "2026-04-05"}
    IN  IF \E s \in texts : DateParts(s) = p
        THEN CHOOSE s \in texts : DateParts(s) = p
        ELSE "????-??-??"

\* the day after <<y, m, d>>
NextDay(p) ==
    IF p[3] < DaysInMonth(p[1], p[2]) THEN <<p[1], p[2], p[3] + 1>>
    ELSE IF p[2] < 12 THEN <<p[1], p[2] + 1, 1>>
    ELSE <<p[1] + 1, 1, 1>>

\* today + timedelta(days=n)
RECURSIVE TodayPlus(_)
TodayPlus(n) == IF n = 0 THEN <<TodayY, TodayM, TodayD>> ELSE NextDay(TodayPlus(n - 1))

\* the month-name rule: with a year the parts are formatted as read; without
\* one, datetime(year, month, day) is built naive (ValueError on a day the
\* month does not have) and compared with the aware `today` (TypeError)
month_name_date(g) ==
    IF g[3] = 0 THEN Raises
    ELSE DateText(<<g[3], g[1], IF g[2] = 0 THEN 1 ELSE g[2]>>)

\* the bare day rule: today.replace(day=day), moved to the next month when
\* that is before today; a ValueError of either replace gives None
bare_day_date(day) ==
    LET next_month == IF TodayM < 12 THEN TodayM + 1 ELSE 1
        next_year == IF TodayM < 12 THEN TodayY ELSE TodayY + 1
    IN  IF day \notin 1..31 \/ day > DaysInMonth(TodayY, TodayM) THEN None
        ELSE IF day < TodayD THEN
            (IF day > DaysInMonth(next_year, next_month) THEN None
             ELSE DateText(<<next_year, next_month, day>>))
        ELSE DateText(<<TodayY, TodayM, day>>)

\* a faulty variant of extract_date: the relative words before the written dates
extract_date_relative_first(text) ==
    LET f == DateMatch(text) IN
    IF "tomorrow" \in f.rel THEN DateText(TodayPlus(1))
    ELSE IF "today" \in f.rel THEN DateText(TodayPlus(0))
    ELSE IF "next week" \in f.rel THEN DateText(TodayPlus(7))
    ELSE IF f.iso # <<>> THEN DateText(f.iso)
    ELSE IF f.dmy # <<>> THEN DateText(<<f.dmy[3], f.dmy[2], f.dmy[1]>>)
    ELSE IF f.month # <<>> THEN month_name_date(f.month)
    ELSE bare_day_date(f.day)

\* extract_date(text): the date text, None, or Raises
extract_date(text) ==
    LET f == DateMatch(text) IN
    IF f.iso # <<>> THEN DateText(f.iso)
    ELSE IF f.dmy # <<>> THEN DateText(<<f.dmy[3], f.dmy[2], f.dmy[1]>>)
    ELSE IF f.month # <<>> THEN month_name_date(f.month)
    ELSE IF "tomorrow" \in f.rel THEN DateText(TodayPlus(1))
    ELSE IF "today" \in f.rel THEN DateText(TodayPlus(0))
    ELSE IF "next week" \in f.rel THEN DateText(TodayPlus(7))
    ELSE bare_day_date(f.day)

(***************************************************************************)
(* The slots and the merge.                                                *)
(***************************************************************************)
Slots == {"intent", "patient_type", "customer_id", "name", "phone", "date",
          "time", "new_date", "new_time", "reason"}

EmptyState ==
    [intent |-> None, patient_type |-> None, customer_id |-> None, name |-> None,
     phone |-> None, date |-> None, time |-> None, new_date |-> None,
     new_time |-> None, reason |-> None, customer_confirmed |-> FALSE]

\* Python truthiness of a value held under key k
Truthy(k, v) == IF k = "customer_confirmed" THEN v = TRUE ELSE v \notin {None, ""}

\* a faulty variant of update_state: the merge without the emptiness test
update_state_unguarded(st, new_data) ==
    [k \in DOMAIN st |-> IF k \in DOMAIN new_data THEN new_data[k] ELSE st[k]]

\* a faulty variant of update_state: only unknown fields take a value
update_state_fills_only(st, new_data) ==
    [k \in DOMAIN st |->
        IF k \in DOMAIN new_data /\ Truthy(k, new_data[k]) /\ ~Truthy(k, st[k])
        THEN new_data[k] ELSE st[k]]

\* a faulty variant of update_state: an empty string clears the field
update_state_empty_clears(st, new_data) ==
    [k \in DOMAIN st |->
        IF k \in DOMAIN new_data /\ (Truthy(k, new_data[k]) \/ (k # "customer_confirmed" /\ new_data[k] = ""))
        THEN new_data[k] ELSE st[k]]

\* update_state: the state st after merging the dict new_data
update_state(st, new_data) ==
    [k \in DOMAIN st |->
        IF k \in DOMAIN new_data /\ Truthy(k, new_data[k]) THEN new_data[k] ELSE st[k]]

(***************************************************************************)
(* get_missing_fields                                                      *)
(***************************************************************************)
\* [f for f in required if not self.state.get(f)]
StillMissing(st, required) == SelectSeq(required, LAMBDA f : ~Truthy(f, st[f]))

\* a faulty variant of required_fields: the time asked before the date
required_fields_time_first(patient_type, intent) ==
    IF intent = "book" \/ ~Truthy("intent", intent) THEN
        <<"name", "phone", "time", "date", "reason">>
    ELSE IF intent = "reschedule" THEN
        <<"name", "phone", "time", "date", "new_date", "new_time">>
    ELSE IF intent = "cancel" THEN
        (IF patient_type = "old" THEN <<"name", "customer_id", "time", "date">>
         ELSE <<"name", "phone", "time", "date">>)
    ELSE <<>>

\* the list `required` of the branch taken for a patient type and an intent
\* (nothing is required where no branch is taken: the function returns [])
required_fields(patient_type, intent) ==
    IF intent = "book" \/ ~Truthy("intent", intent) THEN
        <<"name", "phone", "date", "time", "reason">>
    ELSE IF intent = "reschedule" THEN
        <<"name", "phone", "date", "time", "new_date", "new_time">>
    ELSE IF intent = "cancel" THEN
        (IF patient_type = "old" THEN <<"name", "customer_id", "date", "time">>
         ELSE <<"name", "phone", "date", "time">>)
    ELSE <<>>

\* a faulty variant of get_missing_fields: the intent looked at before the
\* patient type
get_missing_fields_intent_first(st) ==
    IF st.intent = "view_appointments" THEN StillMissing(st, <<"customer_id">>)
    ELSE IF ~Truthy("patient_type", st.patient_type) THEN <<"patient_type">>
    ELSE IF st.patient_type = "old" /\ ~Truthy("customer_id", st.customer_id) THEN
        <<"customer_id">>
    ELSE IF st.patient_type = "old" /\ ~st.customer_confirmed THEN
        <<"customer_confirmation">>
    ELSE StillMissing(st, required_fields(st.patient_type, st.intent))

\* a faulty variant of get_missing_fields: no confirmation required
get_missing_fields_unconfirmed(st) ==
    IF ~Truthy("patient_type", st.patient_type) THEN <<"patient_type">>
    ELSE IF st.patient_type = "old" /\ ~Truthy("customer_id", st.customer_id) THEN
        <<"customer_id">>
    ELSE StillMissing(st, required_fields(st.patient_type, st.intent))

get_missing_fields(st) ==
    IF ~Truthy("patient_type", st.patient_type) THEN <<"patient_type">>
    ELSE IF st.patient_type = "old" /\ ~Truthy("customer_id", st.customer_id) THEN
        <<"customer_id">>
    ELSE IF st.patient_type = "old" /\ ~st.customer_confirmed THEN
        <<"customer_confirmation">>
    ELSE StillMissing(st, required_fields(st.patient_type, st.intent))

(***************************************************************************)
(* parse_with_llm, first part: the answers resolved by keyword matching    *)
(* before the oracle is consulted.  The result says whether the function   *)
(* returned there (hit), the dict it returned (data), and the state and    *)
(* awaiting_field it left (it assigns to both directly); rule names the    *)
(* branch that answered.                                                   *)
(***************************************************************************)
keyword_answer(text, st, aw) ==
    IF aw = "customer_confirmation" /\ AnyWord(text, AFFIRMATIVE) THEN
        [hit |-> TRUE, rule |-> "confirm_yes",
         st |-> [st EXCEPT !.customer_confirmed = TRUE], aw |-> None,
         data |-> [intent |-> st.intent, customer_confirmed |-> TRUE]]
    ELSE IF aw = "customer_confirmation" /\ AnyWord(text, NEGATIVE) THEN
        [hit |-> TRUE, rule |-> "confirm_no",
         st |-> [st EXCEPT !.customer_id = None, !.name = None, !.phone = None,
                           !.patient_type = None],
         aw |-> "patient_type",
         data |-> [intent |-> st.intent, customer_confirmed |-> FALSE]]
    ELSE IF aw = "patient_type" /\ AnyWord(text, NEW_WORDS) THEN
        [hit |-> TRUE, rule |-> "patient_type",
         st |-> [st EXCEPT !.patient_type = "new"], aw |-> None,
         data |-> [patient_type |-> "new"]]
    ELSE IF aw = "patient_type" /\ AnyWord(text, OLD_WORDS) THEN
        [hit |-> TRUE, rule |-> "patient_type",
         st |-> [st EXCEPT !.patient_type = "old"], aw |-> None,
         data |-> [patient_type |-> "old"]]
    ELSE IF aw = "customer_id" THEN
        LET unknown == ~Truthy("patient_type", st.patient_type)
            st1 == IF unknown /\ ~AnyWord(text, ID_NEW_WORDS) /\ AnyWord(text, ID_OLD_WORDS)
                   THEN [st EXCEPT !.patient_type = "old"] ELSE st
        IN  IF unknown /\ AnyWord(text, ID_NEW_WORDS) THEN
                [hit |-> TRUE, rule |-> "id_new",
                 st |-> [st EXCEPT !.patient_type = "new"], aw |-> aw,
                 data |-> [patient_type |-> "new"]]
            ELSE IF AnyWord(text, ID_NO_WORDS) THEN
                [hit |-> TRUE, rule |-> "id_none",
                 st |-> [st1 EXCEPT !.patient_type = "new"], aw |-> aw,
                 data |-> [patient_type |-> "new"]]
            ELSE IF Utt(text).cust # None THEN
                [hit |-> TRUE, rule |-> "customer_id", st |-> st1, aw |-> aw,
                 data |-> [intent |-> st1.intent, customer_id |-> Utt(text).cust]]
            ELSE [hit |-> FALSE, rule |-> None, st |-> st1, aw |-> aw, data |-> <<>>]
    ELSE [hit |-> FALSE, rule |-> None, st |-> st, aw |-> aw, data |-> <<>>]

(***************************************************************************)
(* The NLU oracle.  A schema-compliant answer is a JSON object with the    *)
(* eight keys of the prompt.  Says(text) is what the text says for each    *)
(* kind of value; the oracle may report or omit ("") each of them.  In a   *)
(* conversation about rescheduling (as the prompt tells it) it may put a   *)
(* date or a time in the old or the new slot, or in both.                  *)
(***************************************************************************)
Silent == [intent |-> "", name |-> "", phone |-> "", date |-> "", time |-> "",
           reason |-> ""]

Says(text) ==
    CASE text = "book an appointment" -> [Silent EXCEPT !.intent = "book"]
      [] text = "reschedule" -> [Silent EXCEPT !.intent = "reschedule"]
      [] text = "cancel" -> [Silent EXCEPT !.intent = "cancel"]
      [] text = "show my appointments" -> [Silent EXCEPT !.intent = "view_appointments"]
      [] text = "My name is Asha, phone 9876543210" ->
            [Silent EXCEPT !.name = "Asha", !.phone = "98765 43210"]
      [] text = "tomorrow at 10 AM" ->
            [Silent EXCEPT !.date = "2026-03-07", !.time = "10:00 AM"]
      [] text = "tomorrow at 2 pm" ->
            [Silent EXCEPT !.date = "2026-03-07", !.time = "14:00"]
      [] text = "tomorrow at 6 pm" ->
            [Silent EXCEPT !.date = "2026-03-07 6:00 PM"]
      [] text = "tomorrow at 13 pm" ->
            [Silent EXCEPT !.date = "2026-03-07", !.time = "13:00 PM"]
      [] text = "next week" -> [Silent EXCEPT !.date = "2026-03-13"]
      [] text = "2026-03-05" -> [Silent EXCEPT !.date = "2026-03-05"]
      [] text = "2026-02-30" -> [Silent EXCEPT !.date = "2026-02-30"]
      [] text = "march 7" -> [Silent EXCEPT !.date = "march 7"]
      [] text = "hello" -> [Silent EXCEPT !.intent = "unknown"]
      [] text = "general checkup" -> [Silent EXCEPT !.reason = "general checkup"]
      [] OTHER -> Silent

OracleOutputs(text, rescheduling) ==
    LET s == Says(text) IN
    [intent : {"", s.intent}, name : {"", s.name}, phone : {"", s.phone},
     date : {"", s.date}, time : {"", s.time},
     new_date : IF rescheduling THEN {"", s.date} ELSE {""},
     new_time : IF rescheduling THEN {"", s.time} ELSE {""},
     reason : {"", s.reason}]

(***************************************************************************)
(* validate_and_fix                                                        *)
(***************************************************************************)
\* re.sub(r'[^\d]', '', re.sub(r'\s+', '', s))
Digits(s) ==
    CASE s = "98765 43210" -> "9876543210"
      [] s = " " -> ""
      [] OTHER -> s    \* the other phone texts of the model are digits only

\* " " in s, and s.split(" ", 1)
HasSpace(s) == s \in {" ", "2026-03-07 6:00 PM"}
SplitHead(s) == IF s = "2026-03-07 6:00 PM" THEN "2026-03-07" ELSE ""
SplitTail(s) == IF s = "2026-03-07 6:00 PM" THEN "6:00 PM" ELSE ""

fix_date(parsed, date_key, time_key, original) ==
    IF ~Truthy(date_key, parsed[date_key]) THEN parsed
    ELSE
        LET sp == HasSpace(parsed[date_key])
            d1 == IF sp THEN SplitHead(parsed[date_key]) ELSE parsed[date_key]
            p1 == IF sp /\ ~Truthy(time_key, parsed[time_key])
                  THEN [parsed EXCEPT ![time_key] = normalize_time(SplitTail(parsed[date_key]))]
                  ELSE parsed
            d2 == IF ValidDate(d1) THEN d1
                  ELSE IF extract_date(original) = Raises THEN None
                  ELSE extract_date(original)
        IN  [p1 EXCEPT ![date_key] = d2]

fix_time(parsed, time_key) ==
    IF Truthy(time_key, parsed[time_key])
    THEN [parsed EXCEPT ![time_key] = normalize_time(parsed[time_key])]
    ELSE parsed

validate_and_fix(parsed, original) ==
    LET p1 == IF Truthy("phone", parsed.phone)
              THEN [parsed EXCEPT !.phone = Digits(parsed.phone)] ELSE parsed
        p2 == fix_date(p1, "date", "time", original)
        p3 == fix_date(p2, "new_date", "new_time", original)
    IN  fix_time(fix_time(p3, "time"), "new_time")

(***************************************************************************)
(* fallback_parse                                                          *)
(***************************************************************************)
\* text.strip(), kept only as far as the program reads it: the program never
\* looks inside a reason, so every non-empty reason text is "general checkup".
ReasonText(text) == "general checkup"

\* a faulty variant of fallback_parse: awaiting_field is not looked at
fallback_parse_ignores_awaiting(text, aw) ==
    [intent |-> Utt(text).intent, name |-> Utt(text).name, phone |-> Utt(text).phone,
     date |-> extract_date(text), time |-> normalize_time(Utt(text).time),
     new_date |-> None, new_time |-> None, reason |-> None]

\* (defined for the texts on which extract_date does not raise)
fallback_parse(text, aw) ==
    LET u == Utt(text)
        extracted_date == extract_date(text)
        extracted_time == normalize_time(u.time)
        result == [intent |-> u.intent, name |-> None, phone |-> None, date |-> None,
                   time |-> None, new_date |-> None, new_time |-> None, reason |-> None]
    IN  IF aw = "new_date" /\ Truthy("date", extracted_date) THEN
            [result EXCEPT !.new_date = extracted_date]
        ELSE IF aw = "new_time" /\ Truthy("time", extracted_time) THEN
            [result EXCEPT !.new_time = extracted_time]
        ELSE IF aw = "date" /\ Truthy("date", extracted_date) THEN
            [result EXCEPT !.date = extracted_date]
        ELSE IF aw = "time" /\ Truthy("time", extracted_time) THEN
            [result EXCEPT !.time = extracted_time]
        ELSE IF aw = "name" /\ u.name # None THEN
            [result EXCEPT !.name = u.name]
        ELSE IF aw = "phone" /\ u.phone # None THEN
            [result EXCEPT !.phone = u.phone]
        ELSE IF aw = "reason" THEN
            [result EXCEPT !.reason = ReasonText(text)]
        ELSE
            [result EXCEPT !.name = u.name, !.phone = u.phone,
                           !.date = extracted_date, !.time = extracted_time]

(***************************************************************************)
(* The Calendar (GoogleCalendarManager).  An event is the patient's name   *)
(* and phone (summary and description) and its start, kept as the date and *)
(* time texts it was created from.  `fault` names the collaborator request *)
(* that fails in this turn: a Calendar method raises, a Ledger method      *)
(* catches the exception itself and returns its failure value.             *)
(***************************************************************************)
APPOINTMENT_DURATION_MIN == 10

Faults == {"none", "find_appointment", "cancel", "create_appointment", "sheets"}

NoEvent == [name |-> None, phone |-> None, date |-> None, time |-> None]

\* a faulty variant of is_available: every slot is free
is_available_always(cal, d, t) == TRUE

\* events().list(timeMin = start, timeMax = end) is empty
is_available(cal, d, t) ==
    \A e \in cal :
        ~ (/\ StartMinute(e.date, e.time) < StartMinute(d, t) + APPOINTMENT_DURATION_MIN
           /\ StartMinute(e.date, e.time) + APPOINTMENT_DURATION_MIN > StartMinute(d, t))

\* a faulty variant of find_appointment: the date is not looked at
find_appointment_any_date(cal, name, phone, date) ==
    LET events == {e \in cal : e.name = name} IN
    IF events # {} THEN events ELSE {NoEvent}

\* find_appointment: the events it may return (the API fixes no order), NoEvent
\* for None
find_appointment(cal, name, phone, date) ==
    LET events == {e \in cal : e.date = date /\ e.name = name}
        matching_events == {e \in events : e.phone = phone}
    IN  IF Truthy("phone", phone) /\ events # {}
        THEN (IF matching_events # {} THEN matching_events ELSE {NoEvent})
        ELSE (IF events # {} THEN events ELSE {NoEvent})

(***************************************************************************)
(* The Ledger (GoogleSheetsManager): Customer_Master and the appointment   *)
(* log, each a sequence of rows.                                           *)
(***************************************************************************)
\* int(row[0].replace('CUST', '')) and f"CUST{n:03d}"
CustNum(id) ==
    CASE id = "CUST001" -> 1 [] id = "CUST002" -> 2 [] id = "CUST003" -> 3
      [] id = "CUST004" -> 4 [] id = "CUST005" -> 5 [] OTHER -> 0
CustId(n) ==
    CASE n = 1 -> "CUST001" [] n = 2 -> "CUST002" [] n = 3 -> "CUST003"
      [] n = 4 -> "CUST004" [] n = 5 -> "CUST005" [] OTHER -> "CUST???"

RECURSIVE MaxNum(_)
MaxNum(rows) ==
    IF rows = <<>> THEN 0
    ELSE LET rest == MaxNum(Tail(rows)) n == CustNum(Head(rows).customer_id)
         IN IF n > rest THEN n ELSE rest

generate_customer_id(mas, fault) ==
    IF fault = "sheets" THEN "CUST001"
    ELSE IF Len(mas) = 0 THEN "CUST001"
    ELSE CustId(MaxNum(mas) + 1)

NoCustomer == [customer_id |-> None, name |-> None, phone |-> None]

get_customer_by_id(mas, customer_id, fault) ==
    LET hits == SelectSeq(mas, LAMBDA r : r.customer_id = customer_id)
    IN  IF fault = "sheets" \/ hits = <<>> THEN NoCustomer ELSE Head(hits)

customer_exists_in_master(mas, customer_id, fault) ==
    fault # "sheets" /\ \E i \in 1..Len(mas) : mas[i].customer_id = customer_id

\* a faulty variant of log_appointment: the customer is registered, no row is
\* added to the appointment log
log_appointment_master_only(mas, app, customer_id, name, phone, date, time, reason, fault) ==
    <<IF \E i \in 1..Len(mas) : mas[i].customer_id = customer_id THEN mas
      ELSE Append(mas, [customer_id |-> customer_id, name |-> name, phone |-> phone]),
      app>>

\* log_appointment: the sheets <<master, appointments>> after the call
log_appointment(mas, app, customer_id, name, phone, date, time, reason, fault) ==
    IF fault = "sheets" THEN <<mas, app>>
    ELSE <<IF customer_exists_in_master(mas, customer_id, fault) THEN mas
           ELSE Append(mas, [customer_id |-> customer_id, name |-> name, phone |-> phone]),
           Append(app, [customer_id |-> customer_id, name |-> name, phone |-> phone,
                        date |-> date, time |-> time, reason |-> reason])>>

\* find_appointment_row: the index of the first matching row, 0 for None
find_appointment_row(app, customer_id, date, time, fault) ==
    LET rows == {i \in 1..Len(app) : /\ app[i].customer_id = customer_id
                                     /\ app[i].date = date
                                     /\ app[i].time = time}
    IN  IF fault = "sheets" \/ rows = {} THEN 0
        ELSE CHOOSE i \in rows : \A j \in rows : i <= j

update_appointment(app, customer_id, old_date, old_time, new_date, new_time, fault) ==
    LET row_num == find_appointment_row(app, customer_id, old_date, old_time, fault)
    IN  IF row_num = 0 THEN app
        ELSE [app EXCEPT ![row_num].date = new_date, ![row_num].time = new_time]

delete_appointment(app, customer_id, date, time, fault) ==
    LET row_num == find_appointment_row(app, customer_id, date, time, fault)
    IN  IF row_num = 0 THEN app
        ELSE SubSeq(app, 1, row_num - 1) \o SubSeq(app, row_num + 1, Len(app))

\* a faulty variant of get_appointments_by_id: the rows of every customer
get_appointments_by_id_all(app, customer_id, fault) ==
    IF fault = "sheets" THEN <<>> ELSE app

get_appointments_by_id(app, customer_id, fault) ==
    IF fault = "sheets" THEN <<>>
    ELSE SelectSeq(app, LAMBDA r : r.customer_id = customer_id)

(***************************************************************************)
(* The dispatcher.  Each action returns what it did: the response (resp),  *)
(* the identifier quoted in it (rid), whether reset_state() was called,    *)
(* the Calendar and Ledger it left, and the collaborator calls it made, in *)
(* order; rows is the list of appointments the response enumerates.        *)
(***************************************************************************)
Out(resp, rid, reset, cal, mas, app, calls) ==
    [resp |-> resp, rid |-> rid, reset |-> reset, calendar |-> cal, master |-> mas,
     appointments |-> app, calls |-> calls, rows |-> <<>>]

\* a faulty variant of is_business_hours: the closing hour is accepted
is_business_hours_until_closing(date, time) ==
    LET p == DateParts(date) IN
    /\ Weekday(p[1], p[2], p[3]) # 6
    /\ ~ (Hour24(time) < 9 \/ Hour24(time) > 17)

\* is_business_hours of the instant date + time
is_business_hours(date, time) ==
    LET p == DateParts(date) IN
    /\ Weekday(p[1], p[2], p[3]) # 6
    /\ ~ (Hour24(time) < 9 \/ Hour24(time) >= 17)

\* a faulty variant of first_failed_check: the hours checked before the window
first_failed_check_hours_first(date, time) ==
    IF ~ (ValidDate(date) /\ ParsableTime(time)) THEN "unparsable"
    ELSE IF ~is_business_hours(date, time) THEN "hours"
    ELSE IF DaysFromToday(date) < 0 THEN "past"
    ELSE IF DaysFromToday(date) > 3 THEN "window"
    ELSE ""

\* a faulty variant of first_failed_check: the window ends a day later
first_failed_check_four_days(date, time) ==
    IF ~ (ValidDate(date) /\ ParsableTime(time)) THEN "unparsable"
    ELSE IF DaysFromToday(date) < 0 THEN "past"
    ELSE IF DaysFromToday(date) > 4 THEN "window"
    ELSE IF ~is_business_hours(date, time) THEN "hours"
    ELSE ""

\* the first check of the validator that fails for date + time, "" if none
first_failed_check(date, time) ==
    IF ~ (ValidDate(date) /\ ParsableTime(time)) THEN "unparsable"
    ELSE IF DaysFromToday(date) < 0 THEN "past"
    ELSE IF DaysFromToday(date) > 3 THEN "window"
    ELSE IF ~is_business_hours(date, time) THEN "hours"
    ELSE ""

book(d, cal, mas, app, fault) ==
    LET failed == first_failed_check(d.date, d.time)
        generated == ~Truthy("customer_id", d.customer_id)
        customer_id == IF generated THEN generate_customer_id(mas, fault)
                       ELSE d.customer_id
        c1 == IF generated THEN <<"generate_customer_id">> ELSE <<>>
        logged == log_appointment(mas, app, customer_id, d.name, d.phone, d.date,
                                  d.time, d.reason, fault)
        event == [name |-> d.name, phone |-> d.phone, date |-> d.date, time |-> d.time]
    IN  IF failed = "unparsable" THEN Out("book_unparsable", None, FALSE, cal, mas, app, <<>>)
        ELSE IF failed = "past" THEN Out("book_past", None, FALSE, cal, mas, app, <<>>)
        ELSE IF failed = "window" THEN Out("book_window", None, FALSE, cal, mas, app, <<>>)
        ELSE IF failed = "hours" THEN Out("book_hours", None, FALSE, cal, mas, app, <<>>)
        ELSE IF fault = "create_appointment" THEN
            Out("book_error", None, FALSE, cal, mas, app, c1 \o <<"create_appointment">>)
        ELSE IF ~is_available(cal, d.date, d.time) THEN
            Out("book_taken", None, FALSE, cal, mas, app, c1 \o <<"create_appointment">>)
        ELSE
            Out("booked", IF generated THEN customer_id ELSE None, TRUE,
                cal \cup {event}, logged[1], logged[2],
                c1 \o <<"create_appointment", "log_appointment">>)

reschedule_appointment(d, cal, mas, app, fault, event) ==
    LET failed == first_failed_check(d.new_date, d.new_time)
        has_id == Truthy("customer_id", d.customer_id)
        app1 == IF has_id
                THEN update_appointment(app, d.customer_id, d.date, d.time,
                                        d.new_date, d.new_time, fault)
                ELSE app
        c1 == <<"find_appointment">> \o (IF has_id THEN <<"update_appointment">> ELSE <<>>)
        cal1 == cal \ {event}
        new_event == [name |-> d.name, phone |-> d.phone, date |-> d.new_date,
                      time |-> d.new_time]
    IN  IF ~ (Truthy("name", d.name) /\ Truthy("phone", d.phone) /\ Truthy("date", d.date))
        THEN Out("reschedule_missing_old", None, FALSE, cal, mas, app, <<>>)
        ELSE IF fault = "find_appointment" \/ ~ValidDate(d.date) THEN
            Out("reschedule_error", None, FALSE, cal, mas, app, <<"find_appointment">>)
        ELSE IF event = NoEvent THEN
            Out("reschedule_not_found", None, FALSE, cal, mas, app, <<"find_appointment">>)
        ELSE IF ~ (Truthy("new_date", d.new_date) /\ Truthy("new_time", d.new_time)) THEN
            Out("reschedule_missing_new", None, FALSE, cal, mas, app, <<"find_appointment">>)
        ELSE IF failed = "unparsable" THEN
            Out("reschedule_unparsable", None, FALSE, cal, mas, app, <<"find_appointment">>)
        ELSE IF failed = "past" THEN
            Out("reschedule_past", None, FALSE, cal, mas, app, <<"find_appointment">>)
        ELSE IF failed = "window" THEN
            Out("reschedule_window", None, FALSE, cal, mas, app, <<"find_appointment">>)
        ELSE IF failed = "hours" THEN
            Out("reschedule_hours", None, FALSE, cal, mas, app, <<"find_appointment">>)
        ELSE IF fault = "cancel" THEN
            Out("reschedule_error", None, FALSE, cal, mas, app1, c1 \o <<"cancel">>)
        ELSE IF fault = "create_appointment" THEN
            Out("reschedule_error", None, FALSE, cal1, mas, app1,
                c1 \o <<"cancel", "create_appointment">>)
        ELSE IF ~is_available(cal1, d.new_date, d.new_time) THEN
            Out("reschedule_unavailable", None, FALSE, cal1, mas, app1,
                c1 \o <<"cancel", "create_appointment">>)
        ELSE
            Out("rescheduled", None, TRUE, cal1 \cup {new_event}, mas, app1,
                c1 \o <<"cancel", "create_appointment">>)

cancel_appointment(d, cal, mas, app, fault, event) ==
    LET has_id == Truthy("customer_id", d.customer_id)
        app1 == IF has_id
                THEN delete_appointment(app, d.customer_id, d.date, d.time, fault)
                ELSE app
    IN  IF ~ (Truthy("name", d.name) /\ Truthy("phone", d.phone) /\ Truthy("date", d.date))
        THEN Out("cancel_missing", None, FALSE, cal, mas, app, <<>>)
        ELSE IF fault = "find_appointment" \/ ~ValidDate(d.date) THEN
            Out("cancel_error", None, FALSE, cal, mas, app, <<"find_appointment">>)
        ELSE IF event = NoEvent THEN
            Out("cancel_not_found", None, FALSE, cal, mas, app, <<"find_appointment">>)
        ELSE IF fault = "cancel" THEN
            Out("cancel_error", None, FALSE, cal, mas, app, <<"find_appointment", "cancel">>)
        ELSE
            Out("cancelled", None, TRUE, cal \ {event}, mas, app1,
                <<"find_appointment", "cancel">>
                    \o (IF has_id THEN <<"delete_appointment">> ELSE <<>>))

list_my_appointments(d, cal, mas, app, fault) ==
    LET found == get_appointments_by_id(app, d.customer_id, fault) IN
    IF ~Truthy("customer_id", d.customer_id) THEN
        Out("list_need_id", None, FALSE, cal, mas, app, <<>>)
    ELSE IF found = <<>> THEN
        Out("list_none", None, FALSE, cal, mas, app, <<"get_appointments_by_id">>)
    ELSE [Out("listed", None, TRUE, cal, mas, app, <<"get_appointments_by_id">>)
            EXCEPT !.rows = found]

(***************************************************************************)
(* generate_response, after parse_with_llm returned `data` and left the    *)
(* state st0 and awaiting_field aw0: merge, resolve, then prompt or        *)
(* dispatch.  The result is the new value of every variable; `turn`        *)
(* records what happened: the extraction path, the state right after the   *)
(* merge, the list get_missing_fields returned for it, the dispatcher      *)
(* action entered (None if none), the response, the                        *)
(* field prompted for, the collaborator calls made, the one that failed    *)
(* and the appointments listed.                                            *)
(***************************************************************************)
\* reset_state: the state and awaiting_field it assigns
reset_state == [state |-> EmptyState, awaiting_field |-> None]

\* a faulty variant of after_action: the reset keeps the patient type
after_action_keeps_type(reset, d, aw0) ==
    IF reset
    THEN [state |-> [EmptyState EXCEPT !.patient_type = d.patient_type],
          awaiting_field |-> None]
    ELSE [state |-> d, awaiting_field |-> aw0]

\* a faulty variant of after_action: a failed action forgets the time
after_action_forgets_time(reset, d, aw0) ==
    IF reset THEN reset_state
    ELSE [state |-> [d EXCEPT !.time = None], awaiting_field |-> aw0]

\* the state and awaiting_field after a dispatcher action returned: the action
\* called reset_state() before returning (reset) or left d, the state it was
\* given, and awaiting_field as they were
after_action(reset, d, aw0) ==
    IF reset THEN reset_state ELSE [state |-> d, awaiting_field |-> aw0]

\* the dispatcher action generate_response enters for a state with no field missing
dispatch(st) ==
    IF st.intent = "book" \/ ~Truthy("intent", st.intent) THEN "book"
    ELSE IF st.intent = "reschedule" THEN "reschedule"
    ELSE IF st.intent = "cancel" THEN "cancel"
    ELSE IF st.intent = "view_appointments" THEN "list"
    ELSE IF Truthy("name", st.name) /\ Truthy("phone", st.phone) THEN "default_book"
    ELSE None

\* a faulty variant of prompt_field: the last missing field is asked for
prompt_field_last(missing) == missing[Len(missing)]

\* field = missing[0]: the field generate_response prompts for
prompt_field(missing) == missing[1]

\* a faulty variant of lookup_customer: the record found is not copied
lookup_customer_no_prefill(merged, customer) ==
    IF customer # NoCustomer
    THEN [state |-> merged, awaiting_field |-> "customer_confirmation",
          resp |-> "prompt", field |-> "customer_confirmation"]
    ELSE [state |-> [merged EXCEPT !.customer_id = None],
          awaiting_field |-> "patient_type",
          resp |-> "id_not_found", field |-> "patient_type"]

\* a faulty variant of lookup_customer: after a failed lookup the identifier is
\* awaited
lookup_customer_awaits_id(merged, customer) ==
    IF customer # NoCustomer
    THEN [state |-> [merged EXCEPT !.name = customer.name, !.phone = customer.phone],
          awaiting_field |-> "customer_confirmation",
          resp |-> "prompt", field |-> "customer_confirmation"]
    ELSE [state |-> [merged EXCEPT !.customer_id = None],
          awaiting_field |-> "customer_id",
          resp |-> "id_not_found", field |-> "patient_type"]

\* the branch of field customer_confirmation: the state, awaiting_field and
\* response after the lookup returned `customer` (NoCustomer for None)
lookup_customer(merged, customer) ==
    IF customer # NoCustomer
    THEN [state |-> [merged EXCEPT !.name = customer.name, !.phone = customer.phone],
          awaiting_field |-> "customer_confirmation",
          resp |-> "prompt", field |-> "customer_confirmation"]
    ELSE [state |-> [merged EXCEPT !.customer_id = None],
          awaiting_field |-> "patient_type",
          resp |-> "id_not_found", field |-> "patient_type"]

generate_response(path, st0, aw0, data, cal, mas, app, fault, event) ==
    LET merged == update_state(st0, data)
        missing == get_missing_fields(merged)
        T(action, resp, field, rid, calls) ==
            [path |-> path, merged |-> merged, missing |-> missing, action |-> action,
             resp |-> resp, field |-> field, rid |-> rid, calls |-> calls,
             fault |-> fault, rows |-> <<>>]
    IN  IF missing # <<>> THEN
            LET field == prompt_field(missing)
                looked == lookup_customer(merged, get_customer_by_id(mas, merged.customer_id,
                                                                     fault))
            IN  IF field = "customer_confirmation" THEN
                    [state |-> looked.state,
                     awaiting_field |-> looked.awaiting_field,
                     calendar |-> cal, master |-> mas, appointments |-> app,
                     turn |-> T(None, looked.resp, looked.field, None,
                                <<"get_customer_by_id">>)]
                ELSE
                    [state |-> merged, awaiting_field |-> field,
                     calendar |-> cal, master |-> mas, appointments |-> app,
                     turn |-> T(None, "prompt", field, None, <<>>)]
        ELSE
            LET action == dispatch(merged)
                d == IF action = "default_book" THEN [merged EXCEPT !.intent = "book"]
                     ELSE merged
                out == CASE action \in {"book", "default_book"} ->
                                book(d, cal, mas, app, fault)
                         [] action = "reschedule" ->
                                reschedule_appointment(d, cal, mas, app, fault, event)
                         [] action = "cancel" ->
                                cancel_appointment(d, cal, mas, app, fault, event)
                         [] action = "list" ->
                                list_my_appointments(d, cal, mas, app, fault)
                         [] OTHER -> Out("ask_intent", None, FALSE, cal, mas, app, <<>>)
                after == after_action(out.reset, d, aw0)
            IN  [state |-> after.state,
                 awaiting_field |-> after.awaiting_field,
                 calendar |-> out.calendar, master |-> out.master,
                 appointments |-> out.appointments,
                 turn |-> [T(IF action = "default_book" THEN "book" ELSE action,
                             out.resp, None, out.rid, out.calls)
                              EXCEPT !.rows = out.rows]]

\* the events find_appointment may return to the dispatcher in this turn
EventChoices(st0, data, cal) ==
    LET merged == update_state(st0, data) IN
    IF /\ get_missing_fields(merged) = <<>>
       /\ dispatch(merged) \in {"reschedule", "cancel"}
       /\ ValidDate(merged.date)
    THEN find_appointment(cal, merged.name, merged.phone, merged.date)
    ELSE {NoEvent}

\* the fault is one of a call this turn makes
FaultHits(fault, calls) ==
    \/ fault = "none"
    \/ \E i \in 1..Len(calls) :
        \/ calls[i] = fault
        \/ /\ fault = "sheets"
           /\ calls[i] \in {"generate_customer_id", "get_customer_by_id", "log_appointment",
                            "update_appointment", "delete_appointment",
                            "get_appointments_by_id"}


\* generate_response when parse_with_llm raised: the except branch; the state
\* and awaiting_field are as the keyword step left them
extraction_error(path, st0, aw0, cal, mas, app) ==
    [state |-> st0, awaiting_field |-> aw0, calendar |-> cal, master |-> mas,
     appointments |-> app,
     turn |-> [path |-> path, merged |-> st0, missing |-> <<>>, action |-> None,
               resp |-> "error", field |-> None, rid |-> None, calls |-> <<>>,
               fault |-> "none", rows |-> <<>>]]

(***************************************************************************)
(* The specification: one session of one caller.  A run is played in one   *)
(* scene: what the caller talks about (the texts they say), what the       *)
(* Calendar and the Ledger hold when the session starts, and which         *)
(* collaborator requests may fail.                                         *)
(***************************************************************************)
MaxRows == 2     \* rows of the appointment log

Dhivakar == [customer_id |-> "CUST001", name |-> "Dhivakar G", phone |-> "8610080257"]
Asha == [customer_id |-> "CUST002", name |-> "Asha", phone |-> "9876543210"]
Ravi == [customer_id |-> "CUST003", name |-> "Ravi", phone |-> "9123456780"]

\* the calendar event and the log row of a customer's appointment
Event(c, date, time) == [name |-> c.name, phone |-> c.phone, date |-> date, time |-> time]
Row(c, date, time) ==
    [customer_id |-> c.customer_id, name |-> c.name, phone |-> c.phone, date |-> date,
     time |-> time, reason |-> "general checkup"]

Stores(cal, mas, app) == [calendar |-> cal, master |-> mas, appointments |-> app]

Scenes == {"book", "book_invalid", "book_old", "book_time", "reschedule",
           "reschedule_invalid", "cancel", "returning", "identity"}

Vocabulary(sc) ==
    CASE sc = "book" ->
            {"I'm a new patient", "book an appointment", "My name is Asha, phone 9876543210",
             "tomorrow at 10 AM", "general checkup"}
      [] sc = "book_invalid" ->
            {"I'm a new patient", "My name is Asha, phone 9876543210", "tomorrow at 6 pm",
             "next week", "2026-03-05", "2026-02-30", "march 7", "general checkup",
             "hello"}
      [] sc = "book_old" ->
            {"old", "CUST001", "yes", "tomorrow at 10 AM", "general checkup"}
      [] sc = "book_time" ->
            {"I'm a new patient", "My name is Asha, phone 9876543210", "tomorrow at 13 pm",
             "general checkup"}
      [] sc = "reschedule" ->
            {"old", "CUST001", "yes", "reschedule", "tomorrow at 10 AM", "tomorrow at 2 pm"}
      [] sc = "reschedule_invalid" ->
            {"old", "CUST001", "yes", "reschedule", "tomorrow at 10 AM", "tomorrow at 6 pm",
             "next week"}
      [] sc = "cancel" ->
            {"I'm a new patient", "cancel", "My name is Asha, phone 9876543210",
             "tomorrow at 10 AM", "next week"}
      [] sc = "returning" ->
            {"old", "CUST001", "CUST002", "yes", "no", "show my appointments",
             "I'm a new patient", "march 7"}
      [] sc = "identity" ->
            {"old", "no", "yes", "CUST001", "CUST002", "My name is Asha, phone 9876543210",
             "tomorrow at 6 pm", "general checkup"}

SceneFaults(sc) ==
    CASE sc = "book" -> {"none", "create_appointment", "sheets"}
      [] sc = "reschedule" -> {"none", "find_appointment", "create_appointment"}
      [] sc = "cancel" -> {"none", "find_appointment", "cancel"}
      [] sc = "returning" -> {"none", "sheets"}
      [] OTHER -> {"none"}

SceneStores(sc) ==
    CASE sc = "reschedule" ->
            {Stores({Event(Dhivakar, "2026-03-07", "10:00 AM")}, <<Dhivakar>>,
                    <<Row(Dhivakar, "2026-03-07", "10:00 AM")>>),
             Stores({Event(Dhivakar, "2026-03-07", "10:00 AM"),
                     Event(Asha, "2026-03-07", "2:00 PM")}, <<Dhivakar, Asha>>,
                    <<Row(Dhivakar, "2026-03-07", "10:00 AM"),
                      Row(Asha, "2026-03-07", "2:00 PM")>>)}
      [] sc \in {"reschedule_invalid", "retry_reschedule"} ->
            {Stores({Event(Dhivakar, "2026-03-07", "10:00 AM")}, <<Dhivakar>>,
                    <<Row(Dhivakar, "2026-03-07", "10:00 AM")>>)}
      [] sc = "cancel" ->
            {Stores({Event(Asha, "2026-03-07", "10:00 AM")}, <<Dhivakar, Asha>>,
                    <<Row(Asha, "2026-03-07", "10:00 AM")>>)}
      [] sc = "returning" ->
            {Stores({}, <<Dhivakar>>, <<>>),
             Stores({Event(Dhivakar, "2026-03-07", "10:00 AM")}, <<Dhivakar>>,
                    <<Row(Dhivakar, "2026-03-07", "10:00 AM")>>),
             Stores({Event(Dhivakar, "2026-03-07", "10:00 AM"),
                     Event(Asha, "2026-03-07", "2:00 PM")}, <<Dhivakar, Asha>>,
                    <<Row(Asha, "2026-03-07", "2:00 PM"),
                      Row(Dhivakar, "2026-03-07", "10:00 AM")>>)}
      [] OTHER -> {Stores({}, <<Dhivakar>>, <<>>)}

\* the history of a step that is no generate_response call
NoTurn(path, resp) ==
    [path |-> path, merged |-> EmptyState, missing |-> <<>>, action |-> None,
     resp |-> resp, field |-> None, rid |-> None, calls |-> <<>>, fault |-> "none",
     rows |-> <<>>]

\* no server: the agent is driven directly
NoServer == sessions = <<>> /\ requests = <<>>

\* DentalVoiceAgent.__init__: the empty state
Start ==
    /\ state = EmptyState
    /\ awaiting_field = None
    /\ turn = NoTurn("start", "greeting")
    /\ turns = 0
    /\ NoServer

InitIn(scs) ==
    /\ Start
    /\ scene \in scs
    /\ \E s \in SceneStores(scene) :
        /\ calendar = s.calendar
        /\ master = s.master
        /\ appointments = s.appointments

Apply(r) ==
    /\ Len(r.appointments) <= MaxRows
    /\ state' = r.state
    /\ awaiting_field' = r.awaiting_field
    /\ calendar' = r.calendar
    /\ master' = r.master
    /\ appointments' = r.appointments
    /\ turn' = r.turn
    /\ UNCHANGED <<sessions, requests>>

\* generate_response on the data the extraction returned, with at most one
\* failing collaborator request among those the turn makes
Respond(path, st0, aw0, data, faults) ==
    \E event \in EventChoices(st0, data, calendar) :
    \E r0 \in {generate_response(path, st0, aw0, data, calendar, master,
                                 appointments, "none", event)} :
    \E fault \in {f \in faults : FaultHits(f, r0.turn.calls)} :
    \E r \in {IF fault = "none" THEN r0
              ELSE generate_response(path, st0, aw0, data, calendar, master,
                                     appointments, fault, event)} :
        Apply(r)

KeywordRules == {"confirm_yes", "confirm_no", "patient_type", "id_new", "id_none",
                 "customer_id"}

\* a turn answered by keyword matching
KeywordTurn(text, faults) ==
    \E k \in {keyword_answer(text, state, awaiting_field)} :
        /\ k.hit
        /\ Respond(k.rule, k.st, k.aw, k.data, faults)

\* a turn in which the oracle answers with the JSON object parsed
OracleTurn(text, parsed, faults) ==
    \E k \in {keyword_answer(text, state, awaiting_field)} :
        /\ ~k.hit
        /\ Respond("oracle", k.st, k.aw, validate_and_fix(parsed, text), faults)

\* a turn in which the oracle is unreachable or its output does not parse
FallbackTurn(text, faults) ==
    \E k \in {keyword_answer(text, state, awaiting_field)} :
        /\ ~k.hit
        /\ IF extract_date(text) = Raises
           THEN Apply(extraction_error("fallback", k.st, k.aw, calendar, master,
                                       appointments))
           ELSE Respond("fallback", k.st, k.aw, fallback_parse(text, k.aw), faults)

\* WebVoiceAgent.reset: the explicit reset request
ResetSession ==
    /\ state # EmptyState \/ awaiting_field # None
    /\ state' = reset_state.state
    /\ awaiting_field' = reset_state.awaiting_field
    /\ turn' = NoTurn("reset", "reset")
    /\ UNCHANGED <<calendar, master, appointments, scene, turns,
                   sessions, requests>>

\* generate_response(text) for a text of the scene, by the path it takes
Keyword ==
    /\ \E text \in Vocabulary(scene) : KeywordTurn(text, SceneFaults(scene))
    /\ UNCHANGED <<scene, turns>>

Oracle ==
    /\ \E text \in Vocabulary(scene) :
       \E parsed \in OracleOutputs(text, state.intent = "reschedule") :
            OracleTurn(text, parsed, SceneFaults(scene))
    /\ UNCHANGED <<scene, turns>>

Fallback ==
    /\ \E text \in Vocabulary(scene) : FallbackTurn(text, SceneFaults(scene))
    /\ UNCHANGED <<scene, turns>>

Next == Keyword \/ Oracle \/ Fallback \/ ResetSession

Init == InitIn(Scenes)
Spec == Init /\ [][Next]_vars

InitBook == InitIn({"book"})
SpecBook == InitBook /\ [][Next]_vars
InitBookInvalid == InitIn({"book_invalid"})
SpecBookInvalid == InitBookInvalid /\ [][Next]_vars
InitBookOld == InitIn({"book_old"})
SpecBookOld == InitBookOld /\ [][Next]_vars
InitBookTime == InitIn({"book_time"})
SpecBookTime == InitBookTime /\ [][Next]_vars
InitReschedule == InitIn({"reschedule"})
SpecReschedule == InitReschedule /\ [][Next]_vars
InitRescheduleInvalid == InitIn({"reschedule_invalid"})
SpecRescheduleInvalid == InitRescheduleInvalid /\ [][Next]_vars
InitCancel == InitIn({"cancel"})
SpecCancel == InitCancel /\ [][Next]_vars
InitReturning == InitIn({"returning"})
SpecReturning == InitReturning /\ [][Next]_vars
InitIdentity == InitIn({"identity"})
SpecIdentity == InitIdentity /\ [][Next]_vars


(***************************************************************************)
(* The scripted session: the five utterances of the end-to-end scenario,   *)
(* in order, each answered by the oracle or, the oracle failing, by the    *)
(* fallback.  (No text of the script is a keyword answer where it is       *)
(* said, so every turn goes on to the oracle.)                             *)
(***************************************************************************)
Script ==
    <<"I'm a new patient", "book an appointment", "My name is Asha, phone 9876543210",
      "tomorrow at 10 AM", "general checkup">>

\* the utterances of a scripted scene: the scenario above, and two sessions in
\* which the caller asks for a slot after closing time and then for an open one
ScriptOf(sc) ==
    CASE sc = "retry_book" ->
            <<"book an appointment", "I'm a new patient",
              "My name is Asha, phone 9876543210", "tomorrow at 6 pm", "general checkup",
              "tomorrow at 10 AM">>
      [] sc = "retry_reschedule" ->
            <<"reschedule", "old", "CUST001", "yes", "tomorrow at 10 AM",
              "tomorrow at 6 pm", "tomorrow at 2 pm">>
      [] OTHER -> Script

ScriptKeyword ==
    /\ turns < Len(ScriptOf(scene))
    /\ KeywordTurn(ScriptOf(scene)[turns + 1], {"none"})
    /\ turns' = turns + 1
    /\ UNCHANGED scene

ScriptOracle ==
    /\ turns < Len(ScriptOf(scene))
    /\ \E parsed \in OracleOutputs(ScriptOf(scene)[turns + 1], state.intent = "reschedule") :
            OracleTurn(ScriptOf(scene)[turns + 1], parsed, {"none"})
    /\ turns' = turns + 1
    /\ UNCHANGED scene

ScriptFallback ==
    /\ turns < Len(ScriptOf(scene))
    /\ FallbackTurn(ScriptOf(scene)[turns + 1], {"none"})
    /\ turns' = turns + 1
    /\ UNCHANGED scene

InitScript == InitIn({"script"})
NextScript == ScriptOracle \/ ScriptFallback
SpecScript == InitScript /\ [][NextScript]_vars

\* the two sessions with a second attempt; here a text can be a keyword answer
InitRetry == InitIn({"retry_book", "retry_reschedule"})
NextRetry == ScriptKeyword \/ ScriptOracle \/ ScriptFallback
SpecRetry == InitRetry /\ [][NextRetry]_vars

(***************************************************************************)
(* The resolver alone: get_missing_fields applied to a state drawn from    *)
(* every combination of known and unknown slots.                           *)
(***************************************************************************)
ResolverStates ==
    [intent : {None, "", "book", "reschedule", "cancel", "view_appointments", "unknown"},
     patient_type : {None, "new", "old"},
     customer_id : {None, "CUST001"},
     name : {None, "Asha"},
     phone : {None, "9876543210"},
     date : {None, "2026-03-07"},
     time : {None, "10:00 AM"},
     new_date : {None, "2026-03-08"},
     new_time : {None, "2:00 PM"},
     reason : {None, "general checkup"},
     customer_confirmed : BOOLEAN]

InitResolver ==
    /\ state \in ResolverStates
    /\ awaiting_field = None
    /\ turn = NoTurn("start", "greeting")
    /\ turns = 0
    /\ NoServer
    /\ scene = "resolver"
    /\ calendar = {}
    /\ master = <<Dhivakar>>
    /\ appointments = <<>>

Resolve ==
    /\ turn.path = "start"
    /\ turn' = [NoTurn("get_missing_fields", None) EXCEPT
                    !.merged = state, !.missing = get_missing_fields(state)]
    /\ UNCHANGED <<state, awaiting_field, calendar, master, appointments, scene, turns,
                   sessions, requests>>

NextResolver == Resolve
SpecResolver == InitResolver /\ [][NextResolver]_vars

(***************************************************************************)
(* The extractor alone: the keyword step of parse_with_llm, and            *)
(* fallback_parse where the keyword step does not answer, applied to one   *)
(* text in a state and with an awaiting_field drawn from the combinations  *)
(* below.  `turn` records the text, the state and awaiting_field before,   *)
(* whether the keyword step returned (hit: the oracle is not consulted)    *)
(* and the dict returned.                                                  *)
(***************************************************************************)
Texts == UNION {Vocabulary(sc) : sc \in Scenes} \cup {"nope", "incorrect", "not correct"}

AwaitingFields ==
    {None, "patient_type", "customer_id", "customer_confirmation", "name", "phone",
     "date", "time", "new_date", "new_time", "reason"}

ExtractorStates ==
    {[EmptyState EXCEPT !.intent = i, !.patient_type = p, !.customer_id = c.customer_id,
                        !.name = c.name, !.phone = c.phone, !.date = d] :
        i \in {None, "reschedule"}, p \in {None, "old"}, c \in {NoCustomer, Dhivakar},
        d \in {None, "2026-03-07"}}

ParseTurn(path, text, hit, data) ==
    [path |-> path, text |-> text, st0 |-> state, aw0 |-> awaiting_field, hit |-> hit,
     data |-> data]

InitExtractor ==
    /\ state \in ExtractorStates
    /\ awaiting_field \in AwaitingFields
    /\ turn = NoTurn("start", "greeting")
    /\ turns = 0
    /\ NoServer
    /\ scene = "extractor"
    /\ calendar = {}
    /\ master = <<Dhivakar>>
    /\ appointments = <<>>

KeywordStep ==
    /\ turn.path = "start"
    /\ \E text \in Texts :
       \E k \in {keyword_answer(text, state, awaiting_field)} :
            /\ state' = k.st
            /\ awaiting_field' = k.aw
            /\ turn' = ParseTurn("parse_with_llm", text, k.hit, k.data)
    /\ UNCHANGED <<calendar, master, appointments, scene, turns,
                   sessions, requests>>

FallbackStep ==
    /\ turn.path = "start"
    /\ \E text \in Texts :
            /\ ~keyword_answer(text, state, awaiting_field).hit
            /\ extract_date(text) # Raises
            /\ turn' = ParseTurn("fallback_parse", text, FALSE,
                                 fallback_parse(text, awaiting_field))
    /\ UNCHANGED <<state, awaiting_field, calendar, master, appointments, scene, turns,
                   sessions, requests>>

NextExtractor == KeywordStep \/ FallbackStep
SpecExtractor == InitExtractor /\ [][NextExtractor]_vars

(***************************************************************************)
(* The merge alone: update_state applied to a state drawn from the         *)
(* combinations below and to a dict parse_with_llm may return, either any  *)
(* dict of present, empty and absent values (MergeData) or an answer of    *)
(* the oracle, in which a value may also be whitespace only, after         *)
(* validate_and_fix.  `turn` records the state before, the oracle's answer *)
(* (parsed) and the dict merged (data).                                    *)
(***************************************************************************)
Blank == " "

MergeStates ==
    {[EmptyState EXCEPT !.intent = i, !.name = n, !.phone = p, !.date = d, !.time = t,
                        !.customer_confirmed = c] :
        i \in {None, "book"}, n \in {None, "Dhivakar G"}, p \in {None, "8610080257"},
        d \in {None, "2026-03-08"}, t \in {None, "2:00 PM"}, c \in BOOLEAN}

MergeData ==
    [intent : {None, "", "reschedule"}, name : {None, "", "Asha"},
     phone : {None, "", "9876543210"}, date : {None, "", "2026-03-07"},
     time : {None, "", "10:00 AM"}, customer_confirmed : BOOLEAN]

MergeTexts ==
    {"book an appointment", "My name is Asha, phone 9876543210", "tomorrow at 10 AM",
     "general checkup"}

\* the JSON objects the oracle may answer a text with: each value reported,
\* empty, or whitespace only
OracleAnswers(text) ==
    LET s == Says(text) IN
    [intent : {"", Blank, s.intent}, name : {"", Blank, s.name},
     phone : {"", Blank, s.phone}, date : {"", Blank, s.date},
     time : {"", Blank, s.time}, new_date : {""}, new_time : {""},
     reason : {"", Blank, s.reason}]

MergeTurn(path, text, parsed, data) ==
    [path |-> path, text |-> text, st0 |-> state, parsed |-> parsed, data |-> data]

InitMerge ==
    /\ state \in MergeStates
    /\ awaiting_field = None
    /\ turn = NoTurn("start", "greeting")
    /\ turns = 0
    /\ NoServer
    /\ scene = "merge"
    /\ calendar = {}
    /\ master = <<Dhivakar>>
    /\ appointments = <<>>

\* self.update_state(data)
MergeStep ==
    /\ turn.path = "start"
    /\ \E data \in MergeData :
        /\ state' = update_state(state, data)
        /\ turn' = MergeTurn("update_state", None, <<>>, data)
    /\ UNCHANGED <<awaiting_field, calendar, master, appointments, scene, turns,
                   sessions, requests>>

\* self.update_state(self.validate_and_fix(parsed, text))
OracleMergeStep ==
    /\ turn.path = "start"
    /\ \E text \in MergeTexts :
       \E parsed \in OracleAnswers(text) :
       \E data \in {validate_and_fix(parsed, text)} :
        /\ state' = update_state(state, data)
        /\ turn' = MergeTurn("oracle", text, parsed, data)
    /\ UNCHANGED <<awaiting_field, calendar, master, appointments, scene, turns,
                   sessions, requests>>

NextMerge == MergeStep \/ OracleMergeStep
SpecMerge == InitMerge /\ [][NextMerge]_vars

(***************************************************************************)
(* The validator alone: book and reschedule_appointment applied to a       *)
(* request in which every field is known, for a date and a time drawn from *)
(* the sets below (the days around the booking window and the instants     *)
(* around the opening hours), and is_business_hours applied to the instant *)
(* of a request.  `turn` records the call, the request d, the response and *)
(* what is_business_hours returned.                                        *)
(***************************************************************************)
ValidatorDates ==
    {"2026-03-05", "2026-03-06", "2026-03-07", "2026-03-08", "2026-03-09", "2026-03-10",
     "2026-03-13"}

ValidatorTimes ==
    {"12:30 AM", "8:59 AM", "9:00 AM", "10:00 AM", "12:00 PM", "2:00 PM", "4:59 PM",
     "5:00 PM", "6:00 PM"}

\* the requests: a booking of a new patient, and a reschedule of the
\* appointment of a returning one
ValidatorRequests ==
    {[EmptyState EXCEPT !.intent = "book", !.patient_type = "new", !.name = Asha.name,
                        !.phone = Asha.phone, !.date = d, !.time = t,
                        !.reason = "general checkup"] :
        d \in ValidatorDates, t \in ValidatorTimes}
    \cup
    {[EmptyState EXCEPT !.intent = "reschedule", !.patient_type = "old",
                        !.customer_id = Dhivakar.customer_id, !.customer_confirmed = TRUE,
                        !.name = Dhivakar.name, !.phone = Dhivakar.phone,
                        !.date = "2026-03-07", !.time = "10:00 AM",
                        !.new_date = d, !.new_time = t] :
        d \in ValidatorDates, t \in ValidatorTimes}

ValidatorTurn(path, d, resp, open) == [path |-> path, d |-> d, resp |-> resp, open |-> open]

InitValidator ==
    /\ state \in ValidatorRequests
    /\ awaiting_field = None
    /\ turn = NoTurn("start", "greeting")
    /\ turns = 0
    /\ NoServer
    /\ scene = "validator"
    /\ calendar = {Event(Dhivakar, "2026-03-07", "10:00 AM")}
    /\ master = <<Dhivakar>>
    /\ appointments = <<Row(Dhivakar, "2026-03-07", "10:00 AM")>>

\* the variables after a dispatcher action returned `out` for the request d
Dispatched(path, d, out) ==
    /\ state' = after_action(out.reset, d, awaiting_field).state
    /\ awaiting_field' = after_action(out.reset, d, awaiting_field).awaiting_field
    /\ calendar' = out.calendar
    /\ master' = out.master
    /\ appointments' = out.appointments
    /\ turn' = ValidatorTurn(path, d, out.resp, None)
    /\ UNCHANGED <<scene, turns, sessions, requests>>

\* self.book(self.state)
BookStep ==
    /\ turn.path = "start"
    /\ state.intent = "book"
    /\ Dispatched("book", state, book(state, calendar, master, appointments, "none"))

\* self.reschedule_appointment(self.state)
RescheduleStep ==
    /\ turn.path = "start"
    /\ state.intent = "reschedule"
    /\ \E event \in find_appointment(calendar, state.name, state.phone, state.date) :
        Dispatched("reschedule", state,
                   reschedule_appointment(state, calendar, master, appointments, "none",
                                          event))

\* self.is_business_hours(start), start the instant of the request
BusinessHoursStep ==
    /\ turn.path = "start"
    /\ state.intent = "book"
    /\ turn' = ValidatorTurn("is_business_hours", state, None,
                             is_business_hours(state.date, state.time))
    /\ UNCHANGED <<state, awaiting_field, calendar, master, appointments, scene, turns,
                   sessions, requests>>

NextValidator == BookStep \/ RescheduleStep \/ BusinessHoursStep
SpecValidator == InitValidator /\ [][NextValidator]_vars

(***************************************************************************)
(* The server (src/server.py).  `sessions` is the dict of WebVoiceAgent     *)
(* objects: for each session identifier created so far, whether it is      *)
(* still in the dict (live), the state and awaiting_field of its agent and *)
(* its conversation_history.  The server handles each request on a thread  *)
(* of its own (app.run, threaded by default); `requests` holds, for each   *)
(* worker thread, the request it is handling (the idle thread of the       *)
(* lowest number takes the next request): where it is (pc), the            *)
(* session and text it was sent, and its local values.  A request is       *)
(* divided at the calls that wait for another service: the oracle          *)
(* (requests.post) and, inside create_appointment, the availability query  *)
(* and the insert.  The agents share the Calendar and the Ledger.          *)
(*                                                                         *)
(* A run starts with one caller, or two, one answer away from a booking.   *)
(* `d` is the state dict book was entered with; the texts of this          *)
(* specification change none of the fields book reads after it is entered. *)
(***************************************************************************)
SessionIds == {"s1", "s2"}
Workers == {1, 2}
MaxRequests == 2    \* messages sent to the server in a run

ServerTexts == {"general checkup"}

\* a caller who has given everything but the reason
AwaitingReason(c, patient_type) ==
    [live |-> TRUE,
     state |-> [EmptyState EXCEPT !.patient_type = patient_type,
                                  !.customer_id = IF patient_type = "old" THEN c.customer_id
                                                  ELSE None,
                                  !.customer_confirmed = (patient_type = "old"),
                                  !.name = c.name, !.phone = c.phone,
                                  !.date = "2026-03-07", !.time = "10:00 AM"],
     awaiting_field |-> "reason",
     history |-> <<>>]

\* WebVoiceAgent.__init__
NewSession ==
    [live |-> TRUE, state |-> EmptyState, awaiting_field |-> None, history |-> <<>>]

Idle ==
    [pc |-> "idle", sid |-> None, text |-> None, data |-> <<>>, d |-> EmptyState,
     customer_id |-> None, resp |-> None]

Live == {sid \in DOMAIN sessions : sessions[sid].live}

ServerStep(step, w, sid) == [path |-> "server", step |-> step, w |-> w, sid |-> sid]

InitServer ==
    /\ state = EmptyState
    /\ awaiting_field = None
    /\ turn = ServerStep("start", None, None)
    /\ turns = 0
    /\ scene = "server"
    /\ calendar = {}
    /\ master = <<Dhivakar>>
    /\ appointments = <<>>
    /\ sessions \in {[sid \in {"s1"} |-> AwaitingReason(Asha, "new")],
                     [sid \in {"s1", "s2"} |->
                        IF sid = "s1" THEN AwaitingReason(Asha, "new")
                        ELSE AwaitingReason(Dhivakar, "old")],
                     [sid \in {"s1", "s2"} |->
                        IF sid = "s1" THEN AwaitingReason(Asha, "new")
                        ELSE [AwaitingReason(Ravi, "new") EXCEPT !.state.time = "2:00 PM"]]}
    /\ requests = [w \in Workers |-> Idle]

\* a faulty variant of reset: every session is reset
reset_every_session(ss, sid) ==
    [s \in DOMAIN ss |->
        [ss[s] EXCEPT !.state = reset_state.state,
                      !.awaiting_field = reset_state.awaiting_field, !.history = <<>>]]

\* sessions[sid].reset()
reset(ss, sid) ==
    [ss EXCEPT ![sid].state = reset_state.state,
               ![sid].awaiting_field = reset_state.awaiting_field,
               ![sid].history = <<>>]

\* a faulty variant of insert_event: the slot is looked at again
insert_event_if_free(cal, event) ==
    IF is_available(cal, event.date, event.time) THEN cal \cup {event} ELSE cal

\* create_appointment, second request: events().insert(body = event)
insert_event(cal, event) == cal \cup {event}

\* start_session: a new identifier, a new agent
ServerStart ==
    /\ \E sid \in SessionIds \ DOMAIN sessions :
        /\ sessions' = [s \in DOMAIN sessions \cup {sid} |->
                            IF s = sid THEN NewSession ELSE sessions[s]]
        /\ turn' = ServerStep("start_session", None, sid)
    /\ UNCHANGED <<state, awaiting_field, calendar, master, appointments, scene, turns,
                   requests>>

\* reset_session
ServerReset ==
    /\ \E sid \in Live :
        /\ sessions[sid].state # EmptyState \/ sessions[sid].history # <<>>
        /\ sessions' = reset(sessions, sid)
        /\ turn' = ServerStep("reset_session", None, sid)
    /\ UNCHANGED <<state, awaiting_field, calendar, master, appointments, scene, turns,
                   requests>>

\* end_session: del sessions[session_id]
ServerEnd ==
    /\ \E sid \in Live :
        /\ sessions' = [sessions EXCEPT ![sid].live = FALSE]
        /\ turn' = ServerStep("end_session", None, sid)
    /\ UNCHANGED <<state, awaiting_field, calendar, master, appointments, scene, turns,
                   requests>>

\* send_message up to the call of generate_response: the session is looked
\* up, the message appended to its history
ServerAccept ==
    /\ \E w \in Workers : \E sid \in Live : \E text \in ServerTexts :
        /\ requests[w].pc = "idle"
        /\ \A v \in Workers : v < w => requests[v].pc # "idle"
        /\ turns < MaxRequests
        /\ turns' = turns + 1
        /\ sessions' = [sessions EXCEPT ![sid].history = Append(@, <<"user", text>>)]
        /\ requests' = [requests EXCEPT ![w] = [Idle EXCEPT !.pc = "parse", !.sid = sid,
                                                            !.text = text]]
        /\ turn' = ServerStep("accept", w, sid)
    /\ UNCHANGED <<state, awaiting_field, calendar, master, appointments, scene>>

\* parse_with_llm up to the request to the oracle: the keyword answers
ServerParse ==
    /\ \E w \in Workers :
       LET r == requests[w]
           k == keyword_answer(r.text, sessions[r.sid].state, sessions[r.sid].awaiting_field)
       IN  /\ r.pc = "parse"
           /\ sessions' = [sessions EXCEPT ![r.sid].state = k.st,
                                           ![r.sid].awaiting_field = k.aw]
           /\ requests' = [requests EXCEPT ![w].pc = IF k.hit THEN "merge" ELSE "oracle",
                                           ![w].data = k.data]
           /\ turn' = ServerStep("parse", w, r.sid)
    /\ UNCHANGED <<state, awaiting_field, calendar, master, appointments, scene, turns>>

\* the oracle answers; validate_and_fix
ServerOracle ==
    /\ \E w \in Workers :
       LET r == requests[w] IN
        /\ r.pc = "oracle"
        /\ \E parsed \in OracleOutputs(r.text, sessions[r.sid].state.intent = "reschedule") :
            requests' = [requests EXCEPT ![w].pc = "merge",
                                         ![w].data = validate_and_fix(parsed, r.text)]
        /\ turn' = ServerStep("oracle", w, r.sid)
    /\ UNCHANGED <<state, awaiting_field, calendar, master, appointments, scene, turns,
                   sessions>>

\* the request to the oracle fails; fallback_parse
ServerFallback ==
    /\ \E w \in Workers :
       LET r == requests[w] IN
        /\ r.pc = "oracle"
        /\ requests' =
            [requests EXCEPT
                ![w] = IF extract_date(r.text) = Raises
                       THEN [r EXCEPT !.pc = "respond", !.resp = "error"]
                       ELSE [r EXCEPT !.pc = "merge",
                                      !.data = fallback_parse(r.text,
                                                   sessions[r.sid].awaiting_field)]]
        /\ turn' = ServerStep("fallback", w, r.sid)
    /\ UNCHANGED <<state, awaiting_field, calendar, master, appointments, scene, turns,
                   sessions>>

\* generate_response from update_state on: merge, resolve, then prompt or
\* dispatch; book runs up to the call of create_appointment
ServerMerge ==
    /\ \E w \in Workers :
       LET r == requests[w]
           S == sessions[r.sid]
           merged == update_state(S.state, r.data)
           d == IF dispatch(merged) = "default_book" THEN [merged EXCEPT !.intent = "book"]
                ELSE merged
           creates == /\ get_missing_fields(merged) = <<>>
                      /\ dispatch(merged) \in {"book", "default_book"}
                      /\ first_failed_check(d.date, d.time) = ""
       IN  /\ r.pc = "merge"
           /\ IF creates THEN
                /\ sessions' = [sessions EXCEPT ![r.sid].state = d]
                /\ requests' =
                    [requests EXCEPT
                        ![w].pc = "check", ![w].d = d,
                        ![w].customer_id =
                            IF Truthy("customer_id", d.customer_id) THEN d.customer_id
                            ELSE generate_customer_id(master, "none")]
                /\ UNCHANGED <<calendar, master, appointments>>
              ELSE
                \E event \in EventChoices(S.state, r.data, calendar) :
                \E g \in {generate_response("server", S.state, S.awaiting_field, r.data,
                                            calendar, master, appointments, "none", event)} :
                    /\ sessions' = [sessions EXCEPT ![r.sid].state = g.state,
                                                    ![r.sid].awaiting_field = g.awaiting_field]
                    /\ requests' = [requests EXCEPT ![w].pc = "respond",
                                                    ![w].resp = g.turn.resp]
                    /\ calendar' = g.calendar
                    /\ master' = g.master
                    /\ appointments' = g.appointments
           /\ turn' = ServerStep("merge", w, r.sid)
    /\ UNCHANGED <<state, awaiting_field, scene, turns>>

\* create_appointment, first request: is_available(start_dt, end_dt)
ServerCheck ==
    /\ \E w \in Workers :
       LET r == requests[w] IN
        /\ r.pc = "check"
        /\ requests' =
            [requests EXCEPT
                ![w] = IF is_available(calendar, r.d.date, r.d.time)
                       THEN [r EXCEPT !.pc = "insert"]
                       ELSE [r EXCEPT !.pc = "respond", !.resp = "book_taken"]]
        /\ turn' = ServerStep("check", w, r.sid)
    /\ UNCHANGED <<state, awaiting_field, calendar, master, appointments, scene, turns,
                   sessions>>

\* create_appointment, second request, and the rest of book: the event is
\* inserted, the appointment logged, the state reset
ServerInsert ==
    /\ \E w \in Workers :
       LET r == requests[w]
           logged == log_appointment(master, appointments, r.customer_id, r.d.name,
                                     r.d.phone, r.d.date, r.d.time, r.d.reason, "none")
       IN  /\ r.pc = "insert"
           /\ calendar' = insert_event(calendar, [name |-> r.d.name, phone |-> r.d.phone,
                                                  date |-> r.d.date, time |-> r.d.time])
           /\ master' = logged[1]
           /\ appointments' = logged[2]
           /\ sessions' = [sessions EXCEPT ![r.sid].state = reset_state.state,
                                           ![r.sid].awaiting_field = reset_state.awaiting_field]
           /\ requests' = [requests EXCEPT ![w].pc = "respond", ![w].resp = "booked"]
           /\ turn' = ServerStep("insert", w, r.sid)
    /\ UNCHANGED <<state, awaiting_field, scene, turns>>

\* process_message after generate_response returned: the response is
\* appended to the history and sent
ServerRespond ==
    /\ \E w \in Workers :
       LET r == requests[w] IN
        /\ r.pc = "respond"
        /\ sessions' = [sessions EXCEPT ![r.sid].history = Append(@, <<"agent", r.resp>>)]
        /\ requests' = [requests EXCEPT ![w] = Idle]
        /\ turn' = ServerStep("respond", w, r.sid)
    /\ UNCHANGED <<state, awaiting_field, calendar, master, appointments, scene, turns>>

NextServer ==
    \/ ServerStart \/ ServerReset \/ ServerEnd \/ ServerAccept \/ ServerParse
    \/ ServerOracle \/ ServerFallback \/ ServerMerge \/ ServerCheck \/ ServerInsert
    \/ ServerRespond

SpecServer == InitServer /\ [][NextServer]_vars

(***************************************************************************)
(* The text normalizers alone: normalize_time applied to a time text and   *)
(* extract_date applied to an utterance, both drawn from the sets below    *)
(* (each accepted form of a time, each rule of extract_date alone and      *)
(* texts in which two rules match).  `turn` holds the two inputs and, once *)
(* a function was applied, what it returned.                               *)
(***************************************************************************)
NormalizerTimes ==
    {"10:00 AM", "10 AM", "2 pm", "9am", "14:00", "18:00", "00:15", "09:05", "12:30",
     "13:00", "23:59", "0", "9", "11", "12", "15", "half past nine", "10.30 am"}

NormalizerDates ==
    {"2026-03-05", "5/3/2026", "march 9 2026 or tomorrow", "march 2026", "march 7",
     "tomorrow", "today", "next week", "today or tomorrow", "the 9th", "the 5th",
     "2026-03-09 not 5/3/2026", "5/3/2026 or tomorrow", "tomorrow the 9th",
     "general checkup"}

Pending == "pending"

InitNormalizer ==
    /\ state = EmptyState
    /\ awaiting_field = None
    /\ calendar = {}
    /\ master = <<>>
    /\ appointments = <<>>
    /\ turns = 0
    /\ NoServer
    /\ scene = "normalizer"
    /\ turn \in [path : {"start"}, time : NormalizerTimes, date : NormalizerDates,
                 normalized : {Pending}, extracted : {Pending}]

NormalizeTimeStep ==
    /\ turn.normalized = Pending
    /\ turn' = [turn EXCEPT !.path = "normalize_time",
                            !.normalized = normalize_time(turn.time)]
    /\ UNCHANGED <<state, awaiting_field, calendar, master, appointments, scene, turns,
                   sessions, requests>>

ExtractDateStep ==
    /\ turn.extracted = Pending
    /\ turn' = [turn EXCEPT !.path = "extract_date",
                            !.extracted = extract_date(turn.date)]
    /\ UNCHANGED <<state, awaiting_field, calendar, master, appointments, scene, turns,
                   sessions, requests>>

NextNormalizer == NormalizeTimeStep \/ ExtractDateStep
SpecNormalizer == InitNormalizer /\ [][NextNormalizer]_vars

(***************************************************************************)
(* Properties.                                                             *)
(***************************************************************************)
Known(st, f) == Truthy(f, st[f])
Range(seq) == {seq[i] : i \in 1..Len(seq)}
Position(seq, x) == CHOOSE i \in 1..Len(seq) : seq[i] = x

\* the step is a full reset: the explicit request, or a terminal action succeeded
ResetStep ==
    \/ turn'.path = "reset"
    \/ turn'.resp \in {"booked", "rescheduled", "cancelled", "listed"}

\* C1 (as claimed): outside a full reset, no slot that holds a known value
\* becomes unknown in a step, and a known customer_id keeps its value.
C1_NeverCleared ==
    [][~ResetStep =>
        /\ \A f \in Slots : Known(state, f) => Known(state', f)
        /\ Known(state, "customer_id") => state'.customer_id = state.customer_id
      ]_vars

\* C1 (as the code has it): outside a full reset a known slot becomes unknown
\* only when the caller answers "no" to the identity confirmation (customer_id,
\* name, phone and patient_type are cleared) or when the identity lookup finds
\* no record (customer_id is cleared); a known customer_id is replaced by
\* another one only by a turn the customer-ID keyword rule answers.
C1_ClearedOnlyByIdentitySteps ==
    [][~ResetStep =>
        /\ \A f \in Slots :
            (Known(state, f) /\ ~Known(state', f)) =>
                \/ /\ turn'.path = "confirm_no"
                   /\ f \in {"customer_id", "name", "phone", "patient_type"}
                \/ /\ turn'.resp = "id_not_found"
                   /\ f = "customer_id"
        /\ (/\ Known(state, "customer_id")
            /\ Known(state', "customer_id")
            /\ state'.customer_id # state.customer_id) => turn'.path = "customer_id"
      ]_vars

\* C1: the caller has said "no" to the confirmation; the identity is cleared, the
\* date given before is still known
C1_IdentityCleared ==
    /\ turn.path = "confirm_no"
    /\ ~Known(state, "customer_id") /\ ~Known(state, "name")
    /\ Known(state, "date")

\* C2 (as claimed): after the five utterances of the script the response is the
\* booking confirmation with a newly generated CUSTnnn identifier and the state
\* is empty.
C2_ScriptBooks ==
    turns = Len(Script) =>
        /\ turn.resp = "booked"
        /\ turn.rid \in {CustId(n) : n \in 1..5}
        /\ state = EmptyState

\* C2 (as the code has it): every turn of the script answers with the
\* patient-type question; nothing is booked or logged.
C2_ScriptAsksPatientType ==
    turns >= 1 =>
        /\ turn.resp = "prompt" /\ turn.field = "patient_type"
        /\ ~Known(state, "patient_type")
        /\ calendar = {} /\ appointments = <<>> /\ master = <<Dhivakar>>

\* C2: the script has been played to its end, all other booking slots known
C2_ScriptPlayed ==
    /\ turns = Len(Script)
    /\ turn.resp = "prompt" /\ turn.field = "patient_type"
    /\ \A f \in {"name", "phone", "date", "time", "reason"} : Known(state, f)

MutatingCalls == {"create_appointment", "cancel", "log_appointment", "update_appointment"}

\* the slot the action of turn t validates: the slot to book, or the new slot
SlotDate(t) == IF t.action = "book" THEN t.merged.date ELSE t.merged.new_date
SlotTime(t) == IF t.action = "book" THEN t.merged.time ELSE t.merged.new_time
Unparsable(t) == ~ (ValidDate(SlotDate(t)) /\ ParsableTime(SlotTime(t)))
OutsideWindow(t) == DaysFromToday(SlotDate(t)) < 0 \/ DaysFromToday(SlotDate(t)) > 3
OutsideHours(t) == ~is_business_hours(SlotDate(t), SlotTime(t))

\* turn t reached the checks: book always does, reschedule_appointment once the
\* existing appointment is found and the new slot is given
Validates(t) ==
    \/ t.action = "book"
    \/ /\ t.action = "reschedule"
       /\ t.resp \notin {"reschedule_missing_old", "reschedule_not_found",
                         "reschedule_missing_new"}
       /\ ~ (t.resp = "reschedule_error" /\ t.calls = <<"find_appointment">>)

\* C3: in book and reschedule_appointment the response is that of the first check
\* that fails, in the order parse, window, hours; and a turn that makes a
\* mutating Calendar or Ledger call has passed all three.
C3_ChecksInOrder ==
    Validates(turn) =>
        /\ Unparsable(turn) => turn.resp \in {"book_unparsable", "reschedule_unparsable"}
        /\ (~Unparsable(turn) /\ OutsideWindow(turn)) =>
                turn.resp \in {"book_past", "book_window", "reschedule_past",
                               "reschedule_window"}
        /\ (~Unparsable(turn) /\ ~OutsideWindow(turn) /\ OutsideHours(turn)) =>
                turn.resp \in {"book_hours", "reschedule_hours"}
        /\ (Range(turn.calls) \cap MutatingCalls # {}) =>
                ~Unparsable(turn) /\ ~OutsideWindow(turn) /\ ~OutsideHours(turn)

\* C3: a slot beyond the window and outside the hours is answered by the window
C3_WindowBeforeHours ==
    /\ turn.action = "book"
    /\ turn.merged.date = "2026-03-13" /\ turn.merged.time = "6:00 PM"
    /\ turn.resp = "book_window"

\* C3: the same for the new slot of a rescheduling
C3_RescheduleWindowBeforeHours ==
    /\ turn.action = "reschedule"
    /\ turn.merged.new_date = "2026-03-13" /\ turn.merged.new_time = "6:00 PM"
    /\ turn.resp = "reschedule_window"

\* C4: after book, reschedule_appointment or cancel_appointment confirmed, every
\* slot is None, customer_confirmed is false and awaiting_field is None; after
\* every other outcome of these actions the state is not reset: what was known
\* after the merge is still known.
C4_ResetExactlyOnSuccess ==
    turn.action \in {"book", "reschedule", "cancel"} =>
        IF turn.resp \in {"booked", "rescheduled", "cancelled"}
        THEN /\ \A f \in Slots : state[f] = None
             /\ state.customer_confirmed = FALSE
             /\ awaiting_field = None
        ELSE /\ Known(state, "patient_type")
             /\ \A f \in Slots : Known(turn.merged, f) => Known(state, f)

\* C4: a rescheduling was confirmed (by a turn that gave the new time last)
C4_AfterRescheduled ==
    /\ turn.resp = "rescheduled"
    /\ turn.merged.customer_id = "CUST001"
    /\ state.customer_id = None /\ awaiting_field = None

ValidationFailures ==
    {"book_unparsable", "book_past", "book_window", "book_hours", "book_taken",
     "reschedule_not_found", "reschedule_unparsable", "reschedule_past",
     "reschedule_window", "reschedule_hours", "reschedule_unavailable"}

\* C5 (as claimed): after a validation failure of book or reschedule_appointment
\* the state is the state right after the merge of the turn.
C5_StateIsMergedState ==
    turn.resp \in ValidationFailures => state = turn.merged

\* C5 (as the code has it): after a validation failure the state is the state
\* right after the merge, except that an intent that is none of book, reschedule,
\* cancel, view_appointments has been replaced by book (the default to booking).
C5_StateKeptButIntentDefaulted ==
    turn.resp \in ValidationFailures =>
        /\ \A f \in Slots \ {"intent"} : state[f] = turn.merged[f]
        /\ state.customer_confirmed = turn.merged.customer_confirmed
        /\ \/ state.intent = turn.merged.intent
           \/ /\ state.intent = "book"
              /\ turn.action = "book"
              /\ Known(turn.merged, "intent")
              /\ turn.merged.intent \notin {"book", "reschedule", "cancel",
                                            "view_appointments"}

\* C5: a booking defaulted from an unknown intent failed its validation
C5_DefaultedBookingFailed ==
    /\ turn.resp \in ValidationFailures
    /\ turn.merged.intent = "unknown"
    /\ state.intent = "book"

\* C5: a rescheduling to a taken slot failed with the state kept
C5_RescheduleFailedStateKept ==
    /\ turn.resp = "reschedule_unavailable"
    /\ state = turn.merged

Apologies == {"book_error", "reschedule_error", "cancel_error", "list_error"}

\* C6 (as claimed): when a Calendar or Ledger request fails during a dispatcher
\* action, the response is the apology and the state is the state the dispatcher
\* was entered with.
C6_FailureApologised ==
    (turn.action # None /\ turn.fault # "none") =>
        /\ turn.resp \in Apologies
        /\ \A f \in Slots \ {"intent"} : state[f] = turn.merged[f]

\* C6 (as the code has it, for the Calendar): a failed Calendar request is
\* answered by the apology with the state kept.
C6_CalendarFailureApologised ==
    (turn.action # None /\ turn.fault \in {"find_appointment", "cancel",
                                           "create_appointment"}) =>
        /\ turn.resp \in Apologies
        /\ \A f \in Slots \ {"intent"} : state[f] = turn.merged[f]

\* C6: the Ledger failed during book; the booking was confirmed all the same
C6_LedgerFailureConfirmed ==
    /\ turn.action = "book"
    /\ turn.fault = "sheets"
    /\ turn.resp = "booked"
    /\ state = EmptyState

\* C7 (as claimed): a turn completed by the fallback extractor is never answered
\* by the error response.
C7_FallbackNeverErrors ==
    turn.path = "fallback" => turn.resp # "error"

\* C7: the fallback raised and the caller got the error response
C7_FallbackErrorSurfaced ==
    /\ turn.path = "fallback"
    /\ turn.resp = "error"

\* C8: while patient_type is unknown get_missing_fields returns [patient_type],
\* whatever the intent and the other slots.
C8_PatientTypeFirst ==
    (turn.path = "get_missing_fields" /\ ~Known(turn.merged, "patient_type")) =>
        turn.missing = <<"patient_type">>

\* C8: the resolver ran on a state with a view_appointments intent, a known
\* customer_id and no patient type
C8_ViewWithoutPatientType ==
    /\ turn.path = "get_missing_fields"
    /\ turn.merged.patient_type = None
    /\ turn.merged.intent = "view_appointments"
    /\ turn.merged.customer_id = "CUST001"
    /\ turn.missing = <<"patient_type">>

\* the old patient of state st is not identified yet
Unidentified(st) ==
    st.patient_type = "old" /\ (~Known(st, "customer_id") \/ ~st.customer_confirmed)

ExactlyTheUnknown(missing, st, required) ==
    /\ Range(missing) = {f \in Range(required) : ~Known(st, f)}
    /\ \A i, j \in 1..Len(missing) :
            i < j => Position(required, missing[i]) < Position(required, missing[j])

\* C10: for a new patient, or an old patient with a confirmed customer_id,
\* get_missing_fields returns the unknown members of the required set of the
\* intent, in declaration order; book, new patient, only name and phone known
\* gives [date, time, reason].
C10_MissingOfRequiredInOrder ==
    LET st == turn.merged
        old == st.patient_type = "old"
        identified == \/ st.patient_type = "new"
                      \/ old /\ Known(st, "customer_id") /\ st.customer_confirmed
    IN  (turn.path = "get_missing_fields" /\ identified) =>
            /\ st.intent = "book" =>
                ExactlyTheUnknown(turn.missing, st,
                                  <<"name", "phone", "date", "time", "reason">>)
            /\ st.intent = "reschedule" =>
                ExactlyTheUnknown(turn.missing, st,
                                  <<"name", "phone", "date", "time", "new_date",
                                    "new_time">>)
            /\ (st.intent = "cancel" /\ ~old) =>
                ExactlyTheUnknown(turn.missing, st, <<"name", "phone", "date", "time">>)
            /\ (st.intent = "cancel" /\ old) =>
                ExactlyTheUnknown(turn.missing, st,
                                  <<"name", "customer_id", "date", "time">>)
            /\ (st.intent = "view_appointments" /\ old) => turn.missing = <<>>
            /\ (/\ st.intent = "book" /\ ~old
                /\ {f \in Slots : Known(st, f)} = {"intent", "patient_type", "name",
                                                   "phone"}) =>
                turn.missing = <<"date", "time", "reason">>

\* C10: the resolver ran on the example: book, new patient, only name and phone
C10_BookNewNamePhone ==
    /\ turn.path = "get_missing_fields"
    /\ turn.merged.intent = "book" /\ turn.merged.patient_type = "new"
    /\ {f \in Slots : Known(turn.merged, f)} = {"intent", "patient_type", "name", "phone"}
    /\ turn.missing = <<"date", "time", "reason">>

\* C11 (as claimed): a turn whose merged state has missing fields prompts for
\* the first of them, enters no dispatcher action and makes no mutating call.
C11_PromptsFirstMissing ==
    turn.missing # <<>> =>
        /\ turn.resp = "prompt" /\ turn.field = turn.missing[1]
        /\ turn.action = None
        /\ Range(turn.calls) \cap MutatingCalls = {}

\* C11 (as the code has it): such a turn enters no dispatcher action and leaves
\* the Calendar and the Ledger as they were; it prompts for the first missing
\* field and awaits it, except that when the first missing field is
\* customer_confirmation and the lookup finds no record it says so and asks for
\* (and awaits) the patient type.
C11_PromptsFirstMissingOrPatientType ==
    [][turn'.missing # <<>> =>
        /\ turn'.action = None
        /\ UNCHANGED <<calendar, master, appointments>>
        /\ Range(turn'.calls) \cap MutatingCalls = {}
        /\ \/ /\ turn'.resp = "prompt"
              /\ turn'.field = turn'.missing[1]
              /\ awaiting_field' = turn'.missing[1]
           \/ /\ turn'.missing[1] = "customer_confirmation"
              /\ turn'.resp = "id_not_found"
              /\ turn'.field = "patient_type"
              /\ awaiting_field' = "patient_type"
      ]_vars

\* C11: three fields are missing and the first of them is asked for
C11_AskedForDate ==
    /\ turn.missing = <<"date", "time", "reason">>
    /\ turn.resp = "prompt" /\ turn.field = "date"
    /\ awaiting_field = "date"

\* C12: when the first missing field is customer_confirmation the Ledger is
\* looked up by customer_id; if Customer_Master has a record (and the request
\* does not fail), name and phone are the record's and the caller is asked to
\* confirm; if not, customer_id is cleared and the patient type is asked for
\* and awaited.
C12_LookupPrefillsOrClears ==
    turn.missing = <<"customer_confirmation">> =>
        LET id == turn.merged.customer_id
            records == {i \in 1..Len(master) : master[i].customer_id = id}
            found == turn.fault # "sheets" /\ records # {}
        IN  /\ turn.calls = <<"get_customer_by_id">>
            /\ found =>
                /\ \E i \in records : /\ state.name = master[i].name
                                      /\ state.phone = master[i].phone
                /\ state.customer_id = id
                /\ turn.resp = "prompt" /\ turn.field = "customer_confirmation"
                /\ awaiting_field = "customer_confirmation"
            /\ ~found =>
                /\ state.customer_id = None
                /\ turn.resp = "id_not_found" /\ turn.field = "patient_type"
                /\ awaiting_field = "patient_type"

\* C12: the caller had given another name; the lookup replaced it by the record's
C12_RecordPrefilled ==
    /\ turn.missing = <<"customer_confirmation">>
    /\ turn.merged.name = "Asha"
    /\ state.name = "Dhivakar G" /\ state.phone = "8610080257"
    /\ awaiting_field = "customer_confirmation"

\* C13 (as claimed): while customer_confirmation is awaited, a text with an
\* affirmative token sets customer_confirmed; a text with a negative token and
\* no affirmative one clears customer_id, name and phone and sets awaiting_field
\* to patient_type; either way the keyword step returns, the oracle unasked.
C13_ConfirmationByToken ==
    (turn.path = "parse_with_llm" /\ turn.aw0 = "customer_confirmation") =>
        LET affirmative == Tokens(turn.text) \cap AFFIRMATIVE # {}
            negative == Tokens(turn.text) \cap NEGATIVE # {}
        IN  /\ affirmative =>
                /\ turn.hit
                /\ state.customer_confirmed = TRUE
            /\ (negative /\ ~affirmative) =>
                /\ turn.hit
                /\ state.customer_id = None /\ state.name = None /\ state.phone = None
                /\ awaiting_field = "patient_type"

\* C13 (as the code has it): the same with "the text contains the keyword as a
\* substring" for "the text has the token"; the affirmative list is tried first.
C13_ConfirmationBySubstring ==
    (turn.path = "parse_with_llm" /\ turn.aw0 = "customer_confirmation") =>
        LET affirmative == AnyWord(turn.text, AFFIRMATIVE)
            negative == AnyWord(turn.text, NEGATIVE)
        IN  /\ affirmative =>
                /\ turn.hit
                /\ state = [turn.st0 EXCEPT !.customer_confirmed = TRUE]
                /\ awaiting_field = None
            /\ (negative /\ ~affirmative) =>
                /\ turn.hit
                /\ state.customer_id = None /\ state.name = None /\ state.phone = None
                /\ awaiting_field = "patient_type"
            /\ (~negative /\ ~affirmative) => ~turn.hit

\* C13: the caller said "incorrect" to the confirmation question and the
\* identity was confirmed
C13_IncorrectConfirms ==
    /\ turn.path = "parse_with_llm" /\ turn.aw0 = "customer_confirmation"
    /\ turn.text = "incorrect"
    /\ turn.st0.customer_id = "CUST001" /\ ~turn.st0.customer_confirmed
    /\ state.customer_confirmed = TRUE /\ state.customer_id = "CUST001"

\* C14: in fallback_parse, while new_date is awaited an extracted date is written
\* to new_date and not to date; while new_time is awaited an extracted time is
\* written to new_time and not to time.
C14_AwaitedNewSlotWritten ==
    turn.path = "fallback_parse" =>
        LET extracted_date == extract_date(turn.text)
            extracted_time == normalize_time(Utt(turn.text).time)
        IN  /\ (turn.aw0 = "new_date" /\ Truthy("date", extracted_date)) =>
                /\ turn.data.new_date = extracted_date
                /\ turn.data.date = None
            /\ (turn.aw0 = "new_time" /\ Truthy("time", extracted_time)) =>
                /\ turn.data.new_time = extracted_time
                /\ turn.data.time = None

\* C14: a date said while new_date was awaited went to new_date
C14_NewDateFromFallback ==
    /\ turn.path = "fallback_parse" /\ turn.aw0 = "new_date"
    /\ turn.text = "tomorrow at 10 AM"
    /\ turn.data.new_date = "2026-03-07" /\ turn.data.date = None

C15_NewPatientBooked ==
    /\ turn.action = "book" /\ turn.resp = "booked"
    /\ turn.rid = "CUST002"
    /\ Len(appointments) = 1 /\ appointments[1].customer_id = "CUST002"

\* C16: a booking that passed the parse, window and hours checks for a slot an
\* event of the calendar starts at is answered by the slot-taken response (no
\* Calendar request failing); a turn answered by it leaves the Calendar and the
\* Ledger as they were, calls neither log_appointment nor quotes an identifier,
\* and does not reset the state.
C16_TakenSlotChangesNothing ==
    [][turn'.action = "book" =>
        LET d == turn'.merged
            occupied == \E e \in calendar : e.date = d.date /\ e.time = d.time
        IN  /\ (/\ occupied
                /\ turn'.fault # "create_appointment"
                /\ turn'.resp \notin {"book_unparsable", "book_past", "book_window",
                                      "book_hours"}) => turn'.resp = "book_taken"
            /\ turn'.resp = "book_taken" =>
                /\ UNCHANGED <<calendar, master, appointments>>
                /\ "log_appointment" \notin Range(turn'.calls)
                /\ turn'.rid = None
                /\ \A f \in Slots \ {"intent"} : state'[f] = d[f]
                /\ state'.intent = "book" \/ state'.intent = d.intent
      ]_vars

\* C16: a second caller asked for the slot booked before
C16_SlotTaken ==
    /\ turn.resp = "book_taken"
    /\ state.name = "Asha" /\ state.time = "10:00 AM"
    /\ Len(appointments) = 1 /\ Len(master) = 2

\* C17: when the calendar has no event of the name and phone on the (old) date,
\* reschedule_appointment and cancel_appointment answer with the not-found
\* response (the find request not failing); a turn answered by it makes the
\* find_appointment call only, leaves the Calendar and the Ledger as they were
\* and the state as it was after the merge.
C17_NotFoundChangesNothing ==
    [][turn'.action \in {"reschedule", "cancel"} =>
        LET d == turn'.merged
            no_event == ~ \E e \in calendar :
                            e.name = d.name /\ e.phone = d.phone /\ e.date = d.date
            not_found == IF turn'.action = "cancel" THEN "cancel_not_found"
                         ELSE "reschedule_not_found"
        IN  /\ (/\ no_event
                /\ Known(d, "name") /\ Known(d, "phone") /\ ValidDate(d.date)
                /\ turn'.fault # "find_appointment") => turn'.resp = not_found
            /\ turn'.resp \in {"cancel_not_found", "reschedule_not_found"} =>
                /\ turn'.resp = not_found
                /\ turn'.calls = <<"find_appointment">>
                /\ UNCHANGED <<calendar, master, appointments>>
                /\ state' = d
      ]_vars

\* C17: a cancellation asked for a date on which the caller has no appointment
C17_CancelNotFound ==
    /\ turn.resp = "cancel_not_found"
    /\ state.name = "Asha" /\ state.date = "2026-03-13"
    /\ calendar = {Event(Asha, "2026-03-07", "10:00 AM")}

\* C17: a rescheduling asked for an appointment that is not in the calendar
C17_RescheduleNotFound ==
    /\ turn.resp = "reschedule_not_found"
    /\ state = turn.merged
    /\ state.intent = "reschedule"

\* C18 (as claimed): after a confirmed cancellation the appointment log has no
\* row of the caller for the cancelled date and time.
C18_CancelledRowRemoved ==
    turn.resp = "cancelled" =>
        ~ \E i \in 1..Len(appointments) :
            /\ appointments[i].name = turn.merged.name
            /\ appointments[i].phone = turn.merged.phone
            /\ appointments[i].date = turn.merged.date
            /\ appointments[i].time = turn.merged.time

\* C18: a caller without a customer_id cancelled; the calendar event is gone, the
\* row of the appointment is still in the log, and delete_appointment was not
\* called
C18_NewPatientRowLeft ==
    /\ turn.resp = "cancelled"
    /\ turn.merged.patient_type = "new" /\ turn.merged.customer_id = None
    /\ turn.calls = <<"find_appointment", "cancel">>
    /\ calendar = {}
    /\ appointments = <<Row(Asha, "2026-03-07", "10:00 AM")>>
    /\ state = EmptyState

C19_NoRowsStateKept ==
    /\ turn.resp = "list_none" /\ turn.fault = "none"
    /\ turn.merged.customer_id = "CUST001" /\ turn.merged.customer_confirmed
    /\ state = turn.merged

\* C20 (as claimed): list_my_appointments is entered only with a known and
\* confirmed customer_id.
C20_ListOnlyForConfirmedId ==
    turn.action = "list" =>
        Known(turn.merged, "customer_id") /\ turn.merged.customer_confirmed

\* C20: the appointments of a customer_id were listed to a caller who never
\* confirmed the identity (patient type new, the identifier given while
\* awaiting_field was still customer_id)
C20_ListedUnconfirmed ==
    /\ turn.action = "list" /\ turn.resp = "listed"
    /\ turn.merged.patient_type = "new"
    /\ turn.merged.customer_id = "CUST001" /\ ~turn.merged.customer_confirmed
    /\ turn.rows = <<Row(Dhivakar, "2026-03-07", "10:00 AM")>>

\* C20: list_my_appointments was entered for a new patient with no customer_id
C20_ListWithoutId ==
    /\ turn.action = "list" /\ turn.resp = "list_need_id"
    /\ turn.merged.patient_type = "new" /\ turn.merged.customer_id = None

\* the fields of a dict that hold a present, non-empty value
Present(data) == {k \in DOMAIN data : Truthy(k, data[k])}

\* C24: merging a dict whose values are all absent or empty (None, "", False)
\* leaves the state as it was.
C24_AllAbsentMergeIsIdentity ==
    (turn.path = "update_state" /\ Present(turn.data) = {}) => state = turn.st0

\* C24: an all-absent dict was merged into a state with known fields
C24_AllAbsentMerged ==
    /\ turn.path = "update_state"
    /\ Present(turn.data) = {}
    /\ turn.data.name = "" /\ turn.data.phone = None /\ ~turn.data.customer_confirmed
    /\ turn.st0.name = "Dhivakar G" /\ turn.st0.customer_confirmed

\* C25: update_state changes a field only when the extracted value is present
\* and non-empty, the field then takes that value, and a known field stays
\* known.
C25_MergeOverwritesExactlyPresent ==
    turn.path = "update_state" =>
        \A k \in DOMAIN state :
            /\ (k \in Present(turn.data)) => state[k] = turn.data[k]
            /\ (k \notin Present(turn.data)) => state[k] = turn.st0[k]
            /\ Truthy(k, turn.st0[k]) => Truthy(k, state[k])

\* C25: a merge overwrote one known field and kept another against an empty
\* value
C25_OverwroteAndKept ==
    /\ turn.path = "update_state"
    /\ turn.st0.name = "Dhivakar G" /\ turn.data.name = "Asha" /\ state.name = "Asha"
    /\ turn.st0.phone = "8610080257" /\ turn.data.phone = "" /\ state.phone = "8610080257"

\* C28 (as claimed): a field the oracle returned as whitespace only is absent:
\* after validate_and_fix and the merge the state field is as it was before,
\* and a field that was unknown still counts as missing.
C28_BlankIsAbsent ==
    turn.path = "oracle" =>
        \A k \in DOMAIN turn.parsed :
            turn.parsed[k] = Blank =>
                /\ state[k] = turn.st0[k]
                /\ ~Truthy(k, turn.st0[k]) => ~Truthy(k, state[k])

\* C28: a whitespace-only name of the oracle's answer replaced the known name,
\* and a whitespace-only reason filled the unknown reason
C28_BlankMerged ==
    /\ turn.path = "oracle"
    /\ turn.parsed.name = Blank /\ turn.st0.name = "Dhivakar G" /\ state.name = Blank
    /\ turn.parsed.reason = Blank /\ turn.st0.reason = None /\ state.reason = Blank
    /\ "reason" \notin Range(StillMissing(state, required_fields("new", "book")))

\* C28: the two fields validate_and_fix empties when they are whitespace only
C28_BlankPhoneAndTimeAbsent ==
    turn.path = "oracle" =>
        \A k \in {"phone", "time"} :
            turn.parsed[k] = Blank => ~Truthy(k, turn.data[k]) /\ state[k] = turn.st0[k]

\* C26: with today 2026-03-06, a booking or the new slot of a reschedule passes
\* the window check exactly for the dates today .. today+3: the day before is
\* answered with the past-date message, today+4 and later with the window
\* message, and no date from today to today+3 with either.
C26_WindowIsTodayToThreeDays ==
    turn.path \in {"book", "reschedule"} =>
        LET date == IF turn.path = "book" THEN turn.d.date ELSE turn.d.new_date
            past == IF turn.path = "book" THEN "book_past" ELSE "reschedule_past"
            window == IF turn.path = "book" THEN "book_window" ELSE "reschedule_window"
        IN  /\ date = "2026-03-05" => turn.resp = past
            /\ date \in {"2026-03-10", "2026-03-13"} => turn.resp = window
            /\ date \in {"2026-03-06", "2026-03-07", "2026-03-08", "2026-03-09"} =>
                    turn.resp \notin {past, window}

\* C26: a booking on today+3 went through
C26_LastDayBooked ==
    /\ turn.path = "book" /\ turn.d.date = "2026-03-09" /\ turn.d.time = "10:00 AM"
    /\ turn.resp = "booked"
    /\ Event(Asha, "2026-03-09", "10:00 AM") \in calendar

\* C26: a reschedule to today+4 was refused with the window message
C26_FourthDayRefused ==
    /\ turn.path = "reschedule" /\ turn.d.new_date = "2026-03-10"
    /\ turn.resp = "reschedule_window"
    /\ calendar = {Event(Dhivakar, "2026-03-07", "10:00 AM")}

\* C27: is_business_hours accepts an instant exactly when its day is not a
\* Sunday (2026-03-08 among the dates used) and its time of day is from 09:00
\* up to, and not including, 17:00; a booking inside the window is refused
\* with the opening-hours message exactly for the other instants.
C27_OpenMondayToSaturdayNineToFive ==
    LET open(d) == /\ d.date # "2026-03-08"
                   /\ d.time \in {"9:00 AM", "10:00 AM", "12:00 PM", "2:00 PM", "4:59 PM"}
    IN  /\ turn.path = "is_business_hours" => (turn.open <=> open(turn.d))
        /\ (/\ turn.path = "book"
            /\ turn.d.date \in {"2026-03-06", "2026-03-07", "2026-03-08", "2026-03-09"})
                => (turn.resp = "book_hours" <=> ~open(turn.d))

\* C27: the closing hour of a Saturday was refused
C27_ClosingHourRefused ==
    /\ turn.path = "is_business_hours"
    /\ turn.d.date = "2026-03-07" /\ turn.d.time = "5:00 PM" /\ turn.open = FALSE

\* C27: the opening hour of a Monday was accepted
C27_OpeningHourAccepted ==
    /\ turn.path = "is_business_hours"
    /\ turn.d.date = "2026-03-09" /\ turn.d.time = "9:00 AM" /\ turn.open = TRUE

\* C29 (as claimed): in every reachable state a known date or new_date is a
\* valid calendar date in the form YYYY-MM-DD.
C29_KnownDatesValid ==
    \A f \in {"date", "new_date"} : Known(state, f) => ValidDate(state[f])

\* C29: the oracle reported the date 2026-02-30, validate_and_fix replaced it by
\* what extract_date reads in the text, the same 2026-02-30, and it was merged
C29_InvalidDateFromOracle ==
    /\ turn.path = "oracle" /\ state.date = "2026-02-30" /\ turn.merged.date = "2026-02-30"
    /\ DateParts(state.date) = <<2026, 2, 30>>

\* C29: the same date merged on the fallback path
C29_InvalidDateFromFallback ==
    /\ turn.path = "fallback" /\ state.date = "2026-02-30" /\ turn.merged.date = "2026-02-30"

\* C30 (as claimed): in every reachable state a known time or new_time has the
\* form H:MM AM/PM with the hour in 1..12 and the minute in 00..59.
C30_KnownTimesCanonical ==
    \A f \in {"time", "new_time"} :
        Known(state, f) =>
            LET p == TimeParts(state[f])
            IN  p.mer \in {"AM", "PM"} /\ p.h \in 1..12 /\ p.m \in 0..59

\* C30: normalize_time returned "13:00 PM" and it was merged as the time
C30_ThirteenPM ==
    /\ state.time = "13:00 PM" /\ turn.merged.time = "13:00 PM"
    /\ normalize_time("13 pm") = "13:00 PM" /\ normalize_time("13:00 PM") = "13:00 PM"
    /\ turn.path = "fallback"

\* C30: the same time reported by the oracle and kept by validate_and_fix
C30_ThirteenPMFromOracle ==
    /\ state.time = "13:00 PM" /\ turn.merged.time = "13:00 PM" /\ turn.path = "oracle"

\* the worker threads handling a message of session sid
Handling(sid) == {w \in Workers : requests[w].pc # "idle" /\ requests[w].sid = sid}

\* C21 (as claimed): the messages of one session are processed one at a time:
\* at no time are two requests of the same session under way.
C21_OneTurnAtATime ==
    \A sid \in DOMAIN sessions : Cardinality(Handling(sid)) <= 1

\* C21: two messages of session s1 under way at once, both past the
\* availability check of the same slot
C21_TwoTurnsInterleaved ==
    /\ Handling("s1") = Workers
    /\ \A w \in Workers : requests[w].pc = "insert"

\* C21: the caller of s1 was confirmed the same booking twice, and it was
\* logged twice
C21_BookedTwice ==
    /\ DOMAIN sessions = {"s1"}
    /\ sessions["s1"].history =
            <<<<"user", "general checkup">>, <<"user", "general checkup">>,
              <<"agent", "booked">>, <<"agent", "booked">>>>
    /\ Len(appointments) = 2 /\ appointments[1].date = appointments[2].date
    /\ appointments[1].time = appointments[2].time

\* C22: a request that has passed the availability check inserts its event
\* and confirms the booking, whatever the Calendar holds by then; nothing
\* looks at the slot a second time.
C22_InsertNotSerialized ==
    [][\A w \in Workers :
        (requests[w].pc = "insert" /\ requests'[w].pc # "insert") =>
            /\ [name |-> requests[w].d.name, phone |-> requests[w].d.phone,
                date |-> requests[w].d.date, time |-> requests[w].d.time] \in calendar'
            /\ requests'[w].resp = "booked"]_vars

\* C22: two sessions passed the check of the same slot before either inserted,
\* and both bookings were made and confirmed
C22_BothBooked ==
    /\ Event(Asha, "2026-03-07", "10:00 AM") \in calendar
    /\ Event(Dhivakar, "2026-03-07", "10:00 AM") \in calendar
    /\ DOMAIN sessions = {"s1", "s2"}
    /\ \A sid \in {"s1", "s2"} :
        sessions[sid].history = <<<<"user", "general checkup">>, <<"agent", "booked">>>>
    /\ Len(appointments) = 2

\* C22: both requests past the check, neither event inserted yet
C22_BothPassedCheck ==
    /\ calendar = {}
    /\ \A w \in Workers : requests[w].pc = "insert"
    /\ requests[1].sid # requests[2].sid

\* C23: a step changes the state, awaiting_field and history of no session
\* but the one it handles (a message, a reset or an end-session of that
\* session), and no session object is dropped.
C23_SessionsIsolated ==
    [][/\ DOMAIN sessions \subseteq DOMAIN sessions'
       /\ \A sid \in DOMAIN sessions :
            sessions'[sid] # sessions[sid] => turn'.sid = sid]_vars

\* C23: a session was reset while the other kept its state and history
C23_ResetLeftOtherSession ==
    /\ turn.step = "reset_session" /\ turn.sid = "s1"
    /\ sessions["s1"].state = EmptyState /\ sessions["s1"].history = <<>>
    /\ "s2" \in DOMAIN sessions
    /\ sessions["s2"].state = AwaitingReason(Dhivakar, "old").state
    /\ sessions["s2"].awaiting_field = "reason"
    /\ sessions["s2"].history = <<<<"user", "general checkup">>>>

\* C23: a booking of one session made the other find the slot taken: the
\* sessions met through the Calendar
C23_MetThroughCalendar ==
    /\ DOMAIN sessions = {"s1", "s2"}
    /\ sessions["s1"].history = <<<<"user", "general checkup">>, <<"agent", "booked">>>>
    /\ sessions["s2"].history = <<<<"user", "general checkup">>, <<"agent", "book_taken">>>>

\* C31: normalize_time turns a 24-hour text HH:MM into the 12-hour text of the
\* same instant (hour 0 is 12 AM, 1..11 AM, 12 is 12 PM, 13..23 are H-12 PM,
\* the minutes kept), a bare hour n into n:00 AM when n < 12 and into a PM
\* time of that hour otherwise, "9am" into "9:00 AM", and a text of none of
\* the accepted forms into None.
C31_NormalizeTimeForms ==
    (scene = "normalizer" /\ turn.normalized # Pending) =>
        LET r == RawTime(turn.time)
            out == turn.normalized
            p == TimeParts(out)
        IN  /\ (r.form = "HH:MM" /\ r.h \in 0..23) =>
                    /\ ParsableTime(out)
                    /\ Hour24(out) = r.h
                    /\ p.m = r.m
                    /\ p.h = (IF r.h = 0 THEN 12 ELSE IF r.h > 12 THEN r.h - 12 ELSE r.h)
            /\ r.form = "H" =>
                    /\ p.m = 0
                    /\ p.mer = (IF r.h < 12 THEN "AM" ELSE "PM")
                    /\ (r.h < 12 => p.h = r.h)
                    /\ p.h % 12 = r.h % 12
            /\ turn.time = "9am" => out = "9:00 AM"
            /\ r.form = "" => out = None

\* a text of the hour after midnight was normalized
C31_MidnightWrapped ==
    /\ scene = "normalizer"
    /\ turn.time = "00:15"
    /\ turn.normalized = "12:15 AM"

\* C32: extract_date returns what the first matching rule gives, in the order
\* YYYY-MM-DD, then day-first DD/MM/YYYY or DD-MM-YYYY, then the month-name
\* forms (with a year), then tomorrow / today / next week, then a bare day
\* number; a rule later in the order has no say once an earlier one matched.
\* "5/3/2026" gives 2026-03-05 and "tomorrow" gives the day after today.
C32_FirstMatchingRuleWins ==
    (scene = "normalizer" /\ turn.extracted # Pending) =>
        LET f == DateMatch(turn.date)
            out == turn.extracted
            written == f.iso # <<>> \/ f.dmy # <<>> \/ f.month # <<>>
        IN  /\ f.iso # <<>> => DateParts(out) = f.iso
            /\ (f.iso = <<>> /\ f.dmy # <<>>) =>
                    DateParts(out) = <<f.dmy[3], f.dmy[2], f.dmy[1]>>
            /\ (f.iso = <<>> /\ f.dmy = <<>> /\ f.month # <<>> /\ f.month[3] # 0) =>
                    DateParts(out) =
                        <<f.month[3], f.month[1], IF f.month[2] = 0 THEN 1 ELSE f.month[2]>>
            /\ (~written /\ f.rel # {}) =>
                    /\ ValidDate(out)
                    /\ DaysFromToday(out) = (IF "tomorrow" \in f.rel THEN 1
                                             ELSE IF "today" \in f.rel THEN 0 ELSE 7)
            /\ (~written /\ f.rel = {} /\ f.day # 0) => DateParts(out)[3] = f.day
            /\ (~written /\ f.rel = {} /\ f.day = 0) => out = None
            /\ turn.date = "5/3/2026" => out = "2026-03-05"
            /\ turn.date = "tomorrow" => out = "2026-03-07"

\* a text with a day-first date and the word tomorrow gave the day-first date
C32_WrittenDateBeatTomorrow ==
    /\ scene = "normalizer"
    /\ turn.date = "5/3/2026 or tomorrow"
    /\ turn.extracted = "2026-03-05"

\* C33: for a month name and a day without a year, extract_date returns that
\* month and day in the current year when that date is not before today and
\* in the next year when it is; the returned date is never before today.
C33_MonthDayRollsForward ==
    (scene = "normalizer" /\ turn.extracted # Pending) =>
        LET f == DateMatch(turn.date)
            p == DateParts(turn.extracted)
        IN  (f.iso = <<>> /\ f.dmy = <<>> /\ f.month # <<>> /\ f.month[3] = 0) =>
                /\ ValidDate(turn.extracted)
                /\ p[2] = f.month[1] /\ p[3] = f.month[2]
                /\ p[1] = (IF Ordinal(TodayY, f.month[1], f.month[2])
                                < Ordinal(TodayY, TodayM, TodayD)
                           THEN TodayY + 1 ELSE TodayY)
                /\ DaysFromToday(turn.extracted) >= 0

\* extract_date was called on a month name and a day, and raised
C33_MonthDayRaised ==
    /\ scene = "normalizer"
    /\ turn.date = "march 7"
    /\ turn.extracted = Raises

\* C34 (as claimed): a turn in which reschedule_appointment ran and did not
\* answer with the success confirmation leaves the Calendar and the Ledger as
\* they were before the turn.
C34_FailedRescheduleChangesNothing ==
    [][(turn'.action = "reschedule" /\ turn'.resp # "rescheduled") =>
            UNCHANGED <<calendar, master, appointments>>
      ]_vars

\* C34: the new slot was taken; the turn answered that it is not available,
\* the caller's event is gone from the calendar and the row of the log carries
\* the new date and time
C34_UnavailableSlotLostAppointment ==
    /\ turn.action = "reschedule"
    /\ turn.resp = "reschedule_unavailable"
    /\ turn.merged.name = Dhivakar.name
    /\ turn.merged.date = "2026-03-07" /\ turn.merged.time = "10:00 AM"
    /\ turn.merged.new_time = "2:00 PM"
    /\ calendar = {Event(Asha, "2026-03-07", "2:00 PM")}
    /\ \E i \in 1..Len(appointments) :
            appointments[i] = Row(Dhivakar, "2026-03-07", "2:00 PM")
    /\ ~ \E i \in 1..Len(appointments) :
            appointments[i] = Row(Dhivakar, "2026-03-07", "10:00 AM")

\* the replacement the caller says next in a scripted session with a second
\* attempt: the date and time of the last utterance of the script
RetryDate == extract_date(ScriptOf(scene)[Len(ScriptOf(scene))])
RetryTime == normalize_time(Utt(ScriptOf(scene)[Len(ScriptOf(scene))]).time)

\* C35 (as claimed): when book or reschedule_appointment has just refused the
\* slot and the next utterance supplies a valid and free replacement, the
\* replacement is merged into the slot (date/time, or new_date/new_time) and
\* the action succeeds with it: on the fallback path whatever awaiting_field is,
\* and on the oracle path when the oracle's object carries the replacement.
C35_RetrySucceeds ==
    [][(/\ scene \in {"retry_book", "retry_reschedule"}
        /\ turn.resp \in {"book_hours", "reschedule_hours"}
        /\ turns + 1 = Len(ScriptOf(scene))
        /\ \/ turn'.path = "fallback"
           \/ /\ turn'.path = "oracle"
              /\ SlotDate(turn') = RetryDate /\ SlotTime(turn') = RetryTime) =>
            /\ turn'.action = turn.action
            /\ SlotDate(turn') = RetryDate
            /\ SlotTime(turn') = RetryTime
            /\ turn'.resp = (IF turn.action = "book" THEN "booked" ELSE "rescheduled")
      ]_vars

\* C35: the booking was refused for the hour while the reason was awaited; the
\* oracle failing, the replacement "tomorrow at 10 AM" was taken as a reason,
\* the time stayed 6:00 PM and the booking was refused again for the hour
C35_ReplacementTakenAsReason ==
    /\ scene = "retry_book"
    /\ turns = Len(ScriptOf(scene))
    /\ turn.path = "fallback"
    /\ turn.resp = "book_hours"
    /\ awaiting_field = "reason"
    /\ Known(state, "reason")
    /\ state.time = "6:00 PM"
    /\ RetryTime = "10:00 AM"

\* the required set of the action a turn entered, for the patient type
ActionRequires(action, patient_type) == required_fields(patient_type, action)

\* C36 (as claimed): book, reschedule_appointment and cancel_appointment are
\* entered only with every field of the action's required set known, whatever
\* the intent slot holds.
C36_EnteredOnlyComplete ==
    turn.action \in {"book", "reschedule", "cancel"} =>
        \A f \in Range(ActionRequires(turn.action, turn.merged.patient_type)) :
            Known(turn.merged, f)

\* C36: the oracle said "unknown" for the intent; with the name and the phone
\* known and no date, time or reason, the turn went into book
C36_BookEnteredWithoutSlot ==
    /\ turn.action = "book"
    /\ turn.merged.intent = "unknown"
    /\ Known(turn.merged, "name") /\ Known(turn.merged, "phone")
    /\ ~Known(turn.merged, "date") /\ ~Known(turn.merged, "time")
    /\ ~Known(turn.merged, "reason")
    /\ turn.resp = "book_unparsable"

\* C37 (as claimed): a turn handled by fallback_parse while name, phone, date,
\* time, new_date, new_time or reason is awaited changes no slot but the
\* awaited one and the intent; date and time keep their values while new_date
\* or new_time is awaited.
C37_FallbackWritesAwaitedSlotOnly ==
    (/\ turn.path = "fallback_parse"
     /\ turn.aw0 \in {"name", "phone", "date", "time", "new_date", "new_time", "reason"}) =>
        LET after == update_state(turn.st0, turn.data)
        IN  \A k \in Slots \ {turn.aw0, "intent"} : after[k] = turn.st0[k]

\* C37: the caller was rescheduling the appointment of 2026-03-07 and was asked
\* for the new time; "next week" holds no time, and its date went into the
\* slot of the existing appointment
C37_OldDateOverwritten ==
    /\ turn.path = "fallback_parse"
    /\ turn.aw0 = "new_time"
    /\ turn.text = "next week"
    /\ turn.st0.intent = "reschedule" /\ turn.st0.date = "2026-03-07"
    /\ turn.data.date = "2026-03-13" /\ turn.data.new_date = None
    /\ update_state(turn.st0, turn.data).date = "2026-03-13"

\* C38 (as claimed): whatever the interleaving of the bookings of concurrent
\* sessions, an identifier given to a new patient belongs to one patient: the
\* rows of the appointment log with the same identifier are of the same
\* patient, and the identifier is registered in Customer_Master exactly once,
\* for that patient.
C38_IdentifierOfOnePatient ==
    scene = "server" =>
        \A i \in 1..Len(appointments) :
            /\ \A j \in 1..Len(appointments) :
                    appointments[i].customer_id = appointments[j].customer_id =>
                        /\ appointments[i].name = appointments[j].name
                        /\ appointments[i].phone = appointments[j].phone
            /\ Cardinality({k \in 1..Len(master) :
                                master[k].customer_id = appointments[i].customer_id}) = 1
            /\ \E k \in 1..Len(master) :
                    /\ master[k].customer_id = appointments[i].customer_id
                    /\ master[k].name = appointments[i].name

\* C38: two new patients booked different slots in two sessions at once; both
\* were told CUST002, which Customer_Master holds for the first of them only
C38_TwoPatientsOneIdentifier ==
    /\ scene = "server"
    /\ \E i, j \in 1..Len(appointments) :
            /\ appointments[i].customer_id = "CUST002" /\ appointments[i].name = "Asha"
            /\ appointments[j].customer_id = "CUST002" /\ appointments[j].name = "Ravi"
            /\ appointments[i].time # appointments[j].time
    /\ Len(master) = 2
    /\ \A w \in Workers : requests[w].pc = "idle"

\* C39 (as claimed): at the end of every turn that ends with a prompt,
\* awaiting_field is the first element of get_missing_fields of the state at
\* the end of the turn.
C39_AwaitsFirstMissing ==
    turn.resp \in {"prompt", "id_not_found"} =>
        /\ get_missing_fields(state) # <<>>
        /\ awaiting_field = get_missing_fields(state)[1]

\* C39 (as the code has it): the same for every prompt but the one after a
\* failed lookup of the customer_id; there the patient type is asked for and
\* awaited, while the state still says "old" and has no customer_id, so that
\* the first field get_missing_fields reports is customer_id.
C39_AwaitsFirstMissingUnlessLookupFailed ==
    /\ turn.resp = "prompt" =>
        /\ get_missing_fields(state) # <<>>
        /\ awaiting_field = get_missing_fields(state)[1]
    /\ turn.resp = "id_not_found" =>
        /\ awaiting_field = "patient_type"
        /\ state.patient_type = "old"
        /\ get_missing_fields(state) = <<"customer_id">>

\* C39: CUST002 is not in Customer_Master; the turn asked for the patient type
\* and awaits it while the resolver reports customer_id
C39_LookupFailedAwaitsPatientType ==
    /\ turn.resp = "id_not_found"
    /\ turn.merged.customer_id = "CUST002"
    /\ awaiting_field = "patient_type"
    /\ get_missing_fields(state)[1] = "customer_id"

\* C40 (as claimed): customer_confirmed is true only with patient_type old and
\* a known customer_id; it becomes true only while the confirmation is awaited,
\* which is so only from a successful lookup of the customer_id of the state
\* on (the identifier not changing since); and a new patient never has a
\* customer_id in the state.
C40_ConfirmedOnlyAfterLookup ==
    [][/\ state'.customer_confirmed =>
            state'.patient_type = "old" /\ Known(state', "customer_id")
       /\ (~state.customer_confirmed /\ state'.customer_confirmed) =>
            /\ awaiting_field = "customer_confirmation"
            /\ state'.customer_id = state.customer_id
       /\ awaiting_field' = "customer_confirmation" =>
            /\ \E i \in 1..Len(master) :
                    /\ master[i].customer_id = state'.customer_id
                    /\ master[i].name = state'.name /\ master[i].phone = state'.phone
            /\ \/ /\ turn'.resp = "prompt" /\ turn'.field = "customer_confirmation"
                  /\ turn'.calls = <<"get_customer_by_id">>
                  /\ turn'.merged.customer_id = state'.customer_id
               \/ /\ awaiting_field = "customer_confirmation"
                  /\ state'.customer_id = state.customer_id
       /\ state'.patient_type = "new" => ~Known(state', "customer_id")
      ]_vars

\* C40: the caller answered "no" when asked for the customer ID (the patient
\* type became new while the ID was still awaited) and then said CUST001: a
\* new patient with a customer_id, never looked up nor confirmed
C40_NewPatientWithId ==
    /\ turn.path = "customer_id"
    /\ state.patient_type = "new"
    /\ state.customer_id = "CUST001"
    /\ ~state.customer_confirmed
    /\ awaiting_field # "customer_confirmation"

====
